---- MODULE Spec2Model ----
(***************************************************************************)
(* Model of src/utils/csvHelper.ts: the CSV ingestion engine (parseCSV,    *)
(* parseLeadsCSV) and the metrics aggregator (calculateMetrics), and of    *)
(* the upload path of src/App.tsx and src/components/FileUpload.tsx.       *)
(*                                                                         *)
(* A JavaScript string is a sequence of one-character strings.  A number   *)
(* is an exact rational [num, den] with den > 0 in lowest terms; den = 0   *)
(* encodes the non-finite doubles (NaN, Infinity).  Rounding of binary     *)
(* floating point is not modelled.                                         *)
(***************************************************************************)
EXTENDS Integers, Sequences, FiniteSets, TLC

VARIABLES csvText, pc, lines, delimiter, idx, i, data, src, leads, leadSrc, metrics,
          arg, ret, appData, uploadError, localError, reading,
          mainTab, activeTab, chatSession, messages, inputMessage, isChatLoading, sends,
          loadingAi, aiResult, loadingScript, salesScript, calls

\* the state of the Dashboard component besides metrics and leads, and the
\* asynchronous calls it has in flight
dashVars == <<mainTab, activeTab, chatSession, messages, inputMessage, isChatLoading, sends,
              loadingAi, aiResult, loadingScript, salesScript, calls>>

vars == <<csvText, pc, lines, delimiter, idx, i, data, src, leads, leadSrc, metrics,
          arg, ret, appData, uploadError, localError, reading, dashVars>>

(***************************************************************************)
(* Bounds of the model                                                     *)
(***************************************************************************)
MaxRows == 2

(***************************************************************************)
(* JavaScript values                                                       *)
(***************************************************************************)
\* values[k] for k outside the array
Undefined == <<"undefined">>

\* !val is true for undefined and for the empty string
Truthy(val) == val # Undefined /\ val # <<>>

NaN == [num |-> 0, den |-> 0]

Infinity == [num |-> 1, den |-> 0]

\* what calling a string method on undefined produces
TypeError == [error |-> "TypeError"]

IsTypeError(x) == x = TypeError

\* the same outcome where the expression would have been a string
Thrown == <<"TypeError">>

RECURSIVE GCD(_, _)
GCD(a, b) == IF b = 0 THEN a ELSE GCD(b, a % b)

Abs(n) == IF n < 0 THEN -n ELSE n

Norm(n, d) == LET g == GCD(Abs(n), d) IN [num |-> n \div g, den |-> d \div g]

Num(n) == [num |-> n, den |-> 1]

Zero == Num(0)

IsFinite(a) == a.den > 0

Add(a, b) == Norm(a.num * b.den + b.num * a.den, a.den * b.den)

Mul(a, b) == Norm(a.num * b.num, a.den * b.den)

\* a / b on finite operands, with the IEEE results for a zero divisor
Div(a, b) ==
  IF b.num = 0 THEN (IF a.num = 0 THEN NaN ELSE [num |-> (IF a.num > 0 THEN 1 ELSE -1), den |-> 0])
  ELSE IF b.num > 0 THEN Norm(a.num * b.den, a.den * b.num)
  ELSE Norm(-(a.num * b.den), -(a.den * b.num))

\* a < b where a is finite and b is finite or +Infinity
Less(a, b) == IF b = Infinity THEN IsFinite(a) ELSE a.num * b.den < b.num * a.den

\* a > 0
Positive(a) == a.num > 0

\* a === 0
IsZero(a) == a.den > 0 /\ a.num = 0

(***************************************************************************)
(* String primitives                                                       *)
(***************************************************************************)
Whitespace == {" ", "\t", "\r", "\n"}

Digits == {"0", "1", "2", "3", "4", "5", "6", "7", "8", "9"}

DigitVal == ("0" :> 0) @@ ("1" :> 1) @@ ("2" :> 2) @@ ("3" :> 3) @@ ("4" :> 4) @@ ("5" :> 5) @@ ("6" :> 6) @@ ("7" :> 7) @@ ("8" :> 8) @@ ("9" :> 9)

DigitChar == <<"0", "1", "2", "3", "4", "5", "6", "7", "8", "9">>

LowerOf == ("A" :> "a") @@ ("B" :> "b") @@ ("C" :> "c") @@ ("D" :> "d") @@ ("E" :> "e") @@ ("F" :> "f") @@ ("G" :> "g") @@ ("H" :> "h") @@ ("I" :> "i") @@ ("J" :> "j") @@ ("K" :> "k") @@ ("L" :> "l") @@ ("M" :> "m") @@ ("N" :> "n") @@ ("O" :> "o") @@ ("P" :> "p") @@ ("Q" :> "q") @@ ("R" :> "r") @@ ("S" :> "s") @@ ("T" :> "t") @@ ("U" :> "u") @@ ("V" :> "v") @@ ("W" :> "w") @@ ("X" :> "x") @@ ("Y" :> "y") @@ ("Z" :> "z") @@ ("Õ" :> "õ") @@ ("Ã" :> "ã") @@ ("Ç" :> "ç")

\* canonical decomposition followed by removal of the combining marks
BaseOf == ("õ" :> "o") @@ ("ã" :> "a") @@ ("á" :> "a") @@ ("â" :> "a") @@ ("é" :> "e") @@ ("ê" :> "e") @@ ("í" :> "i") @@ ("ó" :> "o") @@ ("ú" :> "u") @@ ("ç" :> "c")

toLowerCase(str) == [k \in 1..Len(str) |-> IF str[k] \in DOMAIN LowerOf THEN LowerOf[str[k]] ELSE str[k]]

stripDiacritics(str) == [k \in 1..Len(str) |-> IF str[k] \in DOMAIN BaseOf THEN BaseOf[str[k]] ELSE str[k]]

RECURSIVE trimStart(_)
trimStart(str) == IF str # <<>> /\ Head(str) \in Whitespace THEN trimStart(Tail(str)) ELSE str

RECURSIVE trimEnd(_)
trimEnd(str) == IF str # <<>> /\ str[Len(str)] \in Whitespace THEN trimEnd(SubSeq(str, 1, Len(str) - 1)) ELSE str

\* variant: only the leading white space is removed
trimLeading(str) == trimStart(str)

trim(str) == trimEnd(trimStart(str))

\* str.includes(k)
includes(str, k) == \E p \in 0..(Len(str) - Len(k)) : SubSeq(str, p + 1, p + Len(k)) = k

\* str.lastIndexOf(c), 0-based, -1 when absent
lastIndexOf(str, c) == IF \E p \in 1..Len(str) : str[p] = c THEN (CHOOSE p \in 1..Len(str) : str[p] = c /\ \A q \in (p + 1)..Len(str) : str[q] # c) - 1 ELSE -1

\* str.replace(/c/g, '')
removeAll(str, c) == SelectSeq(str, LAMBDA x : x # c)

\* str.replace(c, d): the first occurrence only
replaceFirst(str, c, d) == IF \E p \in 1..Len(str) : str[p] = c THEN LET p == CHOOSE p \in 1..Len(str) : str[p] = c /\ \A q \in 1..(p - 1) : str[q] # c IN [k \in 1..Len(str) |-> IF k = p THEN d ELSE str[k]] ELSE str

\* str.replace(/^"|"$/g, '')
stripQuotes(str) ==
  LET a == IF str # <<>> /\ Head(str) = "\"" THEN Tail(str) ELSE str
  IN IF a # <<>> /\ a[Len(a)] = "\"" THEN SubSeq(a, 1, Len(a) - 1) ELSE a

RECURSIVE toString(_)
\* the decimal text of a non-negative integer, as in `${i}`
toString(n) == IF n < 10 THEN <<DigitChar[n + 1]>> ELSE Append(toString(n \div 10), DigitChar[(n % 10) + 1])

\* Helper to normalize strings for comparison (remove accents, lowercase)
normalize(str) == trim(stripDiacritics(toLowerCase(str)))

(***************************************************************************)
(* parseValue: locale-ambiguous number parsing                             *)
(***************************************************************************)
NumChars == Digits \cup {",", ".", "-"}

\* number of consecutive characters of str from position p (1-based) on that
\* are in chars
runOf(str, p, chars) ==
  IF \E q \in p..Len(str) : str[q] \notin chars
  THEN (CHOOSE q \in p..Len(str) : str[q] \notin chars /\ \A r \in p..(q - 1) : str[r] \in chars) - p
  ELSE IF p <= Len(str) THEN Len(str) - p + 1 ELSE 0

\* number of consecutive digits of str starting at position p (1-based)
digitRun(str, p) == runOf(str, p, Digits)

RECURSIVE digitsValue(_)
digitsValue(str) == IF str = <<>> THEN 0 ELSE digitsValue(SubSeq(str, 1, Len(str) - 1)) * 10 + DigitVal[str[Len(str)]]

RECURSIVE pow10(_)
pow10(k) == IF k = 0 THEN 1 ELSE 10 * pow10(k - 1)

\* a decimal integer of more digits than this is beyond the largest double
\* (about 1.8 * 10^308) and reads as Infinity; the 309-digit integers above
\* the largest double, which read as Infinity too, are not told apart
MaxDoubleDigits == 309

NegInfinity == [num |-> -1, den |-> 0]

\* parseFloat on a string of digits, '.', '-': the longest prefix of the form
\* [-] digits [. digits] with at least one digit, NaN when there is none,
\* an infinity when the integer part is beyond the double range
parseFloat(str) ==
  LET neg == str # <<>> /\ Head(str) = "-"
      body == IF neg THEN Tail(str) ELSE str
      intLen == digitRun(body, 1)
      hasDot == intLen < Len(body) /\ body[intLen + 1] = "."
      fracLen == IF hasDot THEN digitRun(body, intLen + 2) ELSE 0
      mag == digitsValue(SubSeq(body, 1, intLen) \o SubSeq(body, intLen + 2, intLen + 1 + fracLen))
  IN IF intLen = 0 /\ fracLen = 0 THEN NaN
     ELSE IF intLen - runOf(body, 1, {"0"}) > MaxDoubleDigits THEN (IF neg THEN NegInfinity ELSE Infinity)
     ELSE Norm(IF neg THEN -mag ELSE mag, pow10(fracLen))

\* variant: NaN is let through
orZeroKeepNaN(x) == x

\* x || 0
orZero(x) == IF x = NaN \/ IsZero(x) THEN Zero ELSE x

\* variant: every input read in the European format, the point never a decimal point
parseCleanEU(val) ==
  IF val = Undefined THEN TypeError
  ELSE orZero(parseFloat(replaceFirst(removeAll(SelectSeq(val, LAMBDA c : c \in NumChars), "."), ",", ".")))

\* variant: every input read in the US format, the comma never a decimal point
parseCleanUS(val) ==
  IF val = Undefined THEN TypeError
  ELSE orZero(parseFloat(removeAll(SelectSeq(val, LAMBDA c : c \in NumChars), ",")))

\* the body of parseValue after the !val guard; val.replace on undefined raises
parseClean(val) ==
  IF val = Undefined THEN TypeError
  ELSE LET clean == SelectSeq(val, LAMBDA c : c \in NumChars)
           lastComma == lastIndexOf(clean, ",")
           lastDot == lastIndexOf(clean, ".")
       IN IF lastComma > lastDot
          THEN orZero(parseFloat(replaceFirst(removeAll(clean, "."), ",", ".")))
          ELSE orZero(parseFloat(removeAll(clean, ",")))

\* variant: the !val guard left out, so an absent cell reaches val.replace
parseValueUnguarded(val) == parseClean(val)

parseValue(val) == IF ~Truthy(val) THEN Zero ELSE parseClean(val)

(***************************************************************************)
(* splitLine: quote-aware tokenizer                                        *)
(***************************************************************************)
RECURSIVE splitLoopAnywhere(_, _, _, _, _, _)
\* variant: the delimiter splits inside quotes too
splitLoopAnywhere(line, delim, p, current, inQuotes, result) ==
  IF p > Len(line) THEN Append(result, current)
  ELSE IF line[p] = "\"" /\ p < Len(line) /\ line[p + 1] = "\""
       THEN splitLoopAnywhere(line, delim, p + 2, Append(current, "\""), inQuotes, result)
  ELSE IF line[p] = "\"" THEN splitLoopAnywhere(line, delim, p + 1, current, ~inQuotes, result)
  ELSE IF line[p] = delim THEN splitLoopAnywhere(line, delim, p + 1, <<>>, inQuotes, Append(result, current))
  ELSE splitLoopAnywhere(line, delim, p + 1, Append(current, line[p]), inQuotes, result)

\* the number of characters from position p on that are neither a double quote
\* nor the delimiter: each of them takes the last branch of the loop
plainRun(line, delim, p) == runOf(line, p, {line[q] : q \in p..Len(line)} \ {"\"", delim})

RECURSIVE splitLoop(_, _, _, _, _, _)
\* the for loop of splitLine; p is the 1-based position of line[i].  The turns
\* of a run of plain characters, which all do current += char, are taken at once.
splitLoop(line, delim, p, current, inQuotes, result) ==
  IF p > Len(line) THEN Append(result, current)
  ELSE IF line[p] = "\"" /\ p < Len(line) /\ line[p + 1] = "\""
       THEN splitLoop(line, delim, p + 2, Append(current, "\""), inQuotes, result)
  ELSE IF line[p] = "\""
       THEN splitLoop(line, delim, p + 1, current, ~inQuotes, result)
  ELSE IF line[p] = delim /\ ~inQuotes
       THEN splitLoop(line, delim, p + 1, <<>>, inQuotes, Append(result, current))
  ELSE IF line[p] = delim
       THEN splitLoop(line, delim, p + 1, Append(current, line[p]), inQuotes, result)
  ELSE LET n == plainRun(line, delim, p)
       IN splitLoop(line, delim, p + n, current \o SubSeq(line, p, p + n - 1), inQuotes, result)

\* variant: the loop starts with the inside-quotes flag set
splitLineInsideQuotes(line, delim) ==
  LET result == splitLoop(line, delim, 1, <<>>, TRUE, <<>>)
  IN [k \in 1..Len(result) |-> stripQuotes(trim(result[k]))]

\* variant: fields that end up empty are dropped
splitLineNonEmpty(line, delim) ==
  LET result == splitLoop(line, delim, 1, <<>>, FALSE, <<>>)
  IN SelectSeq([k \in 1..Len(result) |-> stripQuotes(trim(result[k]))], LAMBDA c : c # <<>>)

\* the tokenizer: the loop, then c.trim().replace(/^"|"$/g, '') on every field
splitLine(line, delim) ==
  LET result == splitLoop(line, delim, 1, <<>>, FALSE, <<>>)
  IN [k \in 1..Len(result) |-> stripQuotes(trim(result[k]))]

count(line, c) == Len(SelectSeq(line, LAMBDA x : x = c))

\* variant: a tie is won by the rarer delimiter
detectDelimiterTies(line) ==
  LET commas == count(line, ",")
      semicolons == count(line, ";")
      tabs == count(line, "\t")
  IN IF tabs >= commas /\ tabs >= semicolons THEN "\t"
     ELSE IF semicolons >= commas THEN ";"
     ELSE ","

detectDelimiter(line) ==
  LET commas == count(line, ",")
      semicolons == count(line, ";")
      tabs == count(line, "\t")
  IN IF tabs > commas /\ tabs > semicolons THEN "\t"
     ELSE IF semicolons > commas THEN ";"
     ELSE ","

\* csvText.split(/\r?\n/): the pieces between the line feeds, a carriage return
\* directly before a line feed belonging to the separator
splitNewlines(text) ==
  LET breaks == {p \in 1..Len(text) : text[p] = "\n"}
      n == Cardinality(breaks)
      brk(k) == CHOOSE p \in breaks : Cardinality({q \in breaks : q < p}) = k - 1
      start(k) == IF k = 1 THEN 1 ELSE brk(k - 1) + 1
      stop(k) == IF k = n + 1 THEN Len(text)
                 ELSE IF brk(k) - 1 >= start(k) /\ text[brk(k) - 1] = "\r" THEN brk(k) - 2
                 ELSE brk(k) - 1
  IN [k \in 1..(n + 1) |-> SubSeq(text, start(k), stop(k))]

\* csvText.split(/\r?\n/).filter(line => line.trim() !== '')
nonEmptyLines(text) == SelectSeq(splitNewlines(text), LAMBDA line : trim(line) # <<>>)

\* variant: the 0-based column index used as a 1-based position
atOneBased(values, k) == IF k \in 1..Len(values) THEN values[k] ELSE Undefined

\* values[k] for a 0-based k
at(values, k) == IF k + 1 \in 1..Len(values) THEN values[k + 1] ELSE Undefined

\* variant: the rightmost matching header
mapIndexLast(headers, keywords) ==
  LET hit(p) == \E q \in 1..Len(keywords) : includes(headers[p], keywords[q])
  IN IF \E p \in 1..Len(headers) : hit(p)
     THEN (CHOOSE p \in 1..Len(headers) : hit(p) /\ \A r \in (p + 1)..Len(headers) : ~hit(r)) - 1
     ELSE -1

\* headers.findIndex(h => keywords.some(k => h.includes(k))), 0-based, -1 when none
mapIndex(headers, keywords) ==
  LET hit(p) == \E q \in 1..Len(keywords) : includes(headers[p], keywords[q])
  IN IF \E p \in 1..Len(headers) : hit(p)
     THEN (CHOOSE p \in 1..Len(headers) : hit(p) /\ \A r \in 1..(p - 1) : ~hit(r)) - 1
     ELSE -1

headersOf(firstLine, delim) == LET h == splitLine(firstLine, delim) IN [k \in 1..Len(h) |-> normalize(h[k])]

KwCampaignName == <<<<"n", "o", "m", "e", " ", "d", "a", " ", "c", "a", "m", "p", "a", "n", "h", "a">>, <<"c", "a", "m", "p", "a", "i", "g", "n", " ", "n", "a", "m", "e">>, <<"c", "a", "m", "p", "a", "i", "g", "n">>, <<"c", "a", "m", "p", "a", "n", "h", "a">>>>

KwSpend == <<<<"v", "a", "l", "o", "r", " ", "u", "s", "a", "d", "o">>, <<"a", "m", "o", "u", "n", "t", " ", "s", "p", "e", "n", "t">>, <<"s", "p", "e", "n", "d">>, <<"g", "a", "s", "t", "o">>, <<"c", "u", "s", "t", "o">>, <<"v", "a", "l", "o", "r">>>>

KwImpressions == <<<<"i", "m", "p", "r", "e", "s", "s", "o", "e", "s">>, <<"i", "m", "p", "r", "e", "s", "s", "i", "o", "n", "s">>, <<"v", "i", "e", "w", "s">>>>

KwClicks == <<<<"c", "l", "i", "q", "u", "e", "s">>, <<"c", "l", "i", "c", "k", "s">>, <<"l", "i", "n", "k", " ", "c", "l", "i", "c", "k", "s">>>>

KwResults == <<<<"r", "e", "s", "u", "l", "t", "a", "d", "o", "s">>, <<"r", "e", "s", "u", "l", "t", "s">>, <<"l", "e", "a", "d", "s">>, <<"c", "o", "n", "v", "e", "r", "s", "i", "o", "n", "s">>, <<"c", "a", "d", "a", "s", "t", "r", "o">>>>

campaignIndices(headers) ==
  [name |-> mapIndex(headers, KwCampaignName),
   spend |-> mapIndex(headers, KwSpend),
   impressions |-> mapIndex(headers, KwImpressions),
   clicks |-> mapIndex(headers, KwClicks),
   results |-> mapIndex(headers, KwResults)]

KwLeadId == <<<<"i", "d">>, <<"l", "e", "a", "d", "_", "i", "d">>>>

KwLeadDate == <<<<"c", "r", "e", "a", "t", "e", "d", "_", "t", "i", "m", "e">>, <<"d", "a", "t", "a">>, <<"d", "a", "t", "e">>>>

KwLeadName == <<<<"f", "u", "l", "l", "_", "n", "a", "m", "e">>, <<"n", "o", "m", "e">>, <<"n", "a", "m", "e">>, <<"n", "o", "m", "e", " ", "c", "o", "m", "p", "l", "e", "t", "o">>>>

KwLeadEmail == <<<<"e", "m", "a", "i", "l">>, <<"e", "-", "m", "a", "i", "l">>>>

KwLeadPhone == <<<<"p", "h", "o", "n", "e", "_", "n", "u", "m", "b", "e", "r">>, <<"t", "e", "l", "e", "f", "o", "n", "e">>, <<"p", "h", "o", "n", "e">>, <<"c", "e", "l", "u", "l", "a", "r">>>>

KwLeadCampaign == <<<<"c", "a", "m", "p", "a", "i", "g", "n", "_", "n", "a", "m", "e">>, <<"c", "a", "m", "p", "a", "n", "h", "a">>, <<"c", "a", "m", "p", "a", "i", "g", "n">>>>

leadIndices(headers) ==
  [id |-> mapIndex(headers, KwLeadId),
   date |-> mapIndex(headers, KwLeadDate),
   name |-> mapIndex(headers, KwLeadName),
   email |-> mapIndex(headers, KwLeadEmail),
   phone |-> mapIndex(headers, KwLeadPhone),
   campaign |-> mapIndex(headers, KwLeadCampaign)]

(***************************************************************************)
(* Row decoding                                                            *)
(***************************************************************************)
\* idx > -1 ? parseValue(values[idx]) : 0
numericField(values, k) == IF k > -1 THEN parseValue(at(values, k)) ELSE Zero

\* variant: data rows numbered from 0
resolveNameFromZero(values, k, row) ==
  LET campaignName == IF k > -1 THEN at(values, k) ELSE <<"C", "a", "m", "p", "a", "i", "g", "n", " ">> \o toString(row - 1)
  IN IF ~Truthy(campaignName) THEN <<"R", "o", "w", " ">> \o toString(row - 1) ELSE campaignName

\* Fallback for name
resolveName(values, k, row) ==
  LET campaignName == IF k > -1 THEN at(values, k) ELSE <<"C", "a", "m", "p", "a", "i", "g", "n", " ">> \o toString(row)
  IN IF ~Truthy(campaignName) THEN <<"R", "o", "w", " ">> \o toString(row) ELSE campaignName

\* variant: the name tested without lower-casing it
isFilteredCaseSensitive(campaignName, spend, impressions, clicks) ==
  \/ includes(campaignName, <<"t", "o", "t", "a", "l">>)
  \/ includes(campaignName, <<"r", "e", "s", "u", "l", "t", "s">>)
  \/ (IsZero(spend) /\ IsZero(impressions) /\ IsZero(clicks))

\* variant: only the name is tested, rows of zeros are kept
isFilteredByName(campaignName, spend, impressions, clicks) ==
  \/ includes(toLowerCase(campaignName), <<"t", "o", "t", "a", "l">>)
  \/ includes(toLowerCase(campaignName), <<"r", "e", "s", "u", "l", "t", "s">>)

\* Filter out empty rows or total rows
isFiltered(campaignName, spend, impressions, clicks) ==
  \/ includes(toLowerCase(campaignName), <<"t", "o", "t", "a", "l">>)
  \/ includes(toLowerCase(campaignName), <<"r", "e", "s", "u", "l", "t", "s">>)
  \/ (IsZero(spend) /\ IsZero(impressions) /\ IsZero(clicks))

\* a || b on strings
orElse(a, b) == IF a # <<>> THEN a ELSE b

\* variant: the values[idx] guard left out, so an absent cell reaches .replace
safeGetUnguarded(values, k) ==
  IF k > -1
  THEN (IF at(values, k) = Undefined THEN Thrown ELSE trim(stripQuotes(at(values, k))))
  ELSE <<>>

\* Robust extraction: remove quotes, handle potential missing values
safeGet(values, k) ==
  IF k > -1 /\ Truthy(at(values, k))
  THEN (IF at(values, k) = Undefined THEN Thrown ELSE trim(stripQuotes(at(values, k))))
  ELSE <<>>

\* values new Date().toISOString() can take during one import
IsoNow == {<<"2", "0", "2", "4", "-", "0", "5", "-", "0", "1", "T", "1", "2", ":", "0", "0", ":", "0", "0", ".", "0", "0", "0", "Z">>, <<"2", "0", "2", "4", "-", "0", "5", "-", "0", "1", "T", "1", "2", ":", "0", "0", ":", "0", "0", ".", "0", "0", "1", "Z">>}

\* variant: the phone number kept as the cell has it
leadRecordRawPhone(values, ix, row, now) ==
  [id |-> orElse(safeGet(values, ix.id), <<"l", "e", "a", "d", "-">> \o toString(row)),
   createdTime |-> orElse(safeGet(values, ix.date), now),
   fullName |-> orElse(safeGet(values, ix.name), <<"L", "e", "a", "d", " ", "S", "e", "m", " ", "N", "o", "m", "e">>),
   email |-> safeGet(values, ix.email),
   phoneNumber |-> safeGet(values, ix.phone),
   campaignName |-> orElse(safeGet(values, ix.campaign), <<"D", "e", "s", "c", "o", "n", "h", "e", "c", "i", "d", "a">>),
   status |-> "new"]

\* variant: the default id does not carry the row number
leadRecordSameId(values, ix, row, now) ==
  [id |-> orElse(safeGet(values, ix.id), <<"l", "e", "a", "d", "-">> \o toString(0)),
   createdTime |-> orElse(safeGet(values, ix.date), now),
   fullName |-> orElse(safeGet(values, ix.name), <<"L", "e", "a", "d", " ", "S", "e", "m", " ", "N", "o", "m", "e">>),
   email |-> safeGet(values, ix.email),
   phoneNumber |-> IF safeGet(values, ix.phone) = Thrown THEN Thrown
                   ELSE SelectSeq(safeGet(values, ix.phone), LAMBDA c : c \in Digits),
   campaignName |-> orElse(safeGet(values, ix.campaign), <<"D", "e", "s", "c", "o", "n", "h", "e", "c", "i", "d", "a">>),
   status |-> "new"]

\* one lead: leads.push({...}) on the cells of row `row`
leadRecord(values, ix, row, now) ==
  [id |-> orElse(safeGet(values, ix.id), <<"l", "e", "a", "d", "-">> \o toString(row)),
   createdTime |-> orElse(safeGet(values, ix.date), now),
   fullName |-> orElse(safeGet(values, ix.name), <<"L", "e", "a", "d", " ", "S", "e", "m", " ", "N", "o", "m", "e">>),
   email |-> safeGet(values, ix.email),
   phoneNumber |-> IF safeGet(values, ix.phone) = Thrown THEN Thrown
                   ELSE SelectSeq(safeGet(values, ix.phone), LAMBDA c : c \in Digits),
   campaignName |-> orElse(safeGet(values, ix.campaign), <<"D", "e", "s", "c", "o", "n", "h", "e", "c", "i", "d", "a">>),
   status |-> "new"]

(***************************************************************************)
(* calculateMetrics                                                        *)
(***************************************************************************)
RECURSIVE reduceSum(_, _, _)
\* data.reduce((acc, curr) => acc + curr[field], 0), from position k on
reduceSum(records, field, k) ==
  IF k > Len(records) THEN Zero ELSE Add(records[k][field], reduceSum(records, field, k + 1))

\* variant: the ratio not scaled to a percentage
avgCTRNoPercent(totalClicks, totalImpressions) ==
  IF Positive(totalImpressions) THEN Div(totalClicks, totalImpressions) ELSE Zero

\* Avoid division by zero
avgCTROf(totalClicks, totalImpressions) ==
  IF Positive(totalImpressions) THEN Mul(Div(totalClicks, totalImpressions), Num(100)) ELSE Zero

avgCPCOf(totalSpend, totalClicks) ==
  IF Positive(totalClicks) THEN Div(totalSpend, totalClicks) ELSE Zero

NA == <<"N", "/", "A">>

\* variant: cpa <= bestCPA, so a later record takes over on a tie
improvesOrTies(cpa, bestCPA) == bestCPA = Infinity \/ cpa.num * bestCPA.den <= bestCPA.num * cpa.den

\* cpa < bestCPA
improves(cpa, bestCPA) == Less(cpa, bestCPA)

RECURSIVE bestScan(_, _, _, _)
\* Find best campaign (Lowest CPA): the forEach from position k on
bestScan(records, k, bestCampaignName, bestCPA) ==
  IF k > Len(records) THEN [bestCampaignName |-> bestCampaignName, bestCPA |-> bestCPA]
  ELSE IF Positive(records[k].results) /\ improves(Div(records[k].spend, records[k].results), bestCPA)
       THEN bestScan(records, k + 1, records[k].campaignName, Div(records[k].spend, records[k].results))
  ELSE bestScan(records, k + 1, bestCampaignName, bestCPA)

calculateMetrics(records) ==
  LET totalSpend == reduceSum(records, "spend", 1)
      totalImpressions == reduceSum(records, "impressions", 1)
      totalClicks == reduceSum(records, "clicks", 1)
      best == bestScan(records, 1, NA, Infinity)
  IN [totalSpend |-> totalSpend,
      totalImpressions |-> totalImpressions,
      totalClicks |-> totalClicks,
      avgCTR |-> avgCTROf(totalClicks, totalImpressions),
      avgCPC |-> avgCPCOf(totalSpend, totalClicks),
      bestCampaignName |-> best.bestCampaignName,
      bestCPA |-> IF best.bestCPA = Infinity THEN Zero ELSE best.bestCPA]

(***************************************************************************)
(* Input texts                                                             *)
(***************************************************************************)
HeaderNome == <<"N", "o", "m", "e", ",", "V", "a", "l", "o", "r", " ", "u", "s", "a", "d", "o", ",", "I", "m", "p", "r", "e", "s", "s", "õ", "e", "s", ",", "C", "l", "i", "q", "u", "e", "s", ",", "R", "e", "s", "u", "l", "t", "a", "d", "o", "s">>

HeaderCampaign == <<"C", "a", "m", "p", "a", "i", "g", "n", ",", "S", "p", "e", "n", "d", ",", "V", "i", "e", "w", "s", ",", "C", "l", "i", "c", "k", "s", ",", "L", "e", "a", "d", "s">>

HeaderSemicolon == <<"C", "a", "m", "p", "a", "n", "h", "a", ";", "G", "a", "s", "t", "o", ";", "C", "l", "i", "q", "u", "e", "s">>

HeaderLines == {HeaderNome, HeaderCampaign, HeaderSemicolon}

RowAdA == <<"A", "d", " ", "A", ",", "1", "0", "0", ",", "1", "0", "0", "0", ",", "5", "0", ",", "5">>

RowAdB == <<"A", "d", " ", "B", ",", "2", "0", "0", ",", "2", "0", "0", "0", ",", "8", "0", ",", "0">>

RowLines ==
  {RowAdA, RowAdB,
   <<"T", "o", "t", "a", "l", ",", "3", "0", "0", ",", "3", "0", "0", "0", ",", "1", "3", "0", ",", "5">>,
   <<"I", "d", "l", "e", ",", "0", ",", "0", ",", "0", ",", "7">>,
   <<",", "5", "0", ",", "5", "0", "0", ",", "2", "0", ",", "5">>,
   <<"A", "d", " ", "C", ",", "1", "0", "0", ",", "9", "0", "0", ",", "3", "0", ",", "1", "0">>,
   <<"\"", "A", "d", ",", " ", "D", "\"", ",", "\"", "1", ".", "2", "3", "4", ",", "5", "6", "\"", ",", "1", ".", "5", ",", "2", ",", "3">>,
   <<"S", "h", "o", "r", "t", ",", "1", "0", ",", "\"", "7", "\r">>,
   <<" ", " ", " ">>,
   <<"S", "e", "a", "r", "c", "h", " ", "R", "e", "s", "u", "l", "t", "s", ",", "1", "0", ",", "2", "0", ",", "3", ",", "1">>,
   <<"A", "d", " ", "E", ",", "R", "$", " ", "7", ",", "-", "5", ",", "4", ",", "a", "b", "c">>,
   <<"R", "e", "f", "u", "n", "d", ",", "-", "5", ",", "0", ",", "0", ",", "1">>,
   <<"\"", "O", "p", "e", "n", ",", "5", ",", "6", ",", "7", ",", "8">>,
   <<"A", "d", " ", "F", ";", "9", ";", "4">>}

RECURSIVE joinLines(_)
\* every line followed by a line feed
joinLines(ls) == IF ls = <<>> THEN <<>> ELSE Head(ls) \o <<"\n">> \o joinLines(Tail(ls))

textsOf(headerLines, rowLines) ==
  {<<>>} \cup
  {joinLines(<<h>> \o rows) : h \in headerLines, rows \in UNION {[1..n -> rowLines] : n \in 0..MaxRows}}

Texts == textsOf(HeaderLines, RowLines)

EndToEndText == joinLines(<<HeaderNome, RowAdA, RowAdB>>)

LeadHeaderMeta == <<"i", "d", ",", "d", "a", "t", "e", ",", "f", "u", "l", "l", "_", "n", "a", "m", "e", ",", "e", "m", "a", "i", "l", ",", "p", "h", "o", "n", "e", ",", "c", "a", "m", "p", "a", "i", "g", "n">>

LeadHeaderSemicolon == <<"N", "o", "m", "e", ";", "T", "e", "l", "e", "f", "o", "n", "e", ";", "E", "-", "m", "a", "i", "l">>

LeadHeaderLines == {LeadHeaderMeta, LeadHeaderSemicolon}

LeadRowLines ==
  {<<"l", ":", "1", ",", "2", "0", "2", "4", "-", "0", "1", "-", "0", "2", ",", "A", "n", "a", " ", "L", "i", ",", "a", "@", "x", ".", "i", "o", ",", "+", "5", "5", " ", "(", "1", "1", ")", " ", "9", ",", "P", "r", "o", "m", "o">>,
   <<"l", ":", "1", ",", ",", "\"", "S", "i", "l", "v", "a", ",", " ", "C", "a", "i", "o", "\"", ",", ",", "p", ":", "2", "1", "-", "9", "8", ",">>,
   <<",", ",", ",", ",", ",">>,
   <<"7", "\r">>,
   <<" ", " ", " ">>,
   <<"B", "i", "a", ";", "(", "2", "1", ")", " ", "9", "8", ";", "b", "@", "y", ".", "i", "o">>,
   <<"\"", "\"", "\"", "\"", "\"", "\"", ",", ",", "\"", "\"", "\"", "\"", "L", "i", ",", ",", ",">>}

LeadTexts == textsOf(LeadHeaderLines, LeadRowLines)

(***************************************************************************)
(* State machine: one text is parsed as a campaign export (parseCSV, then  *)
(* calculateMetrics on the result) or as a lead export (parseLeadsCSV).    *)
(* i is the loop variable of the parser, src[k] / leadSrc[k] the value of  *)
(* i at which record k was pushed.                                         *)
(***************************************************************************)
NoIndices == [name |-> -1]

NoMetrics == [bestCampaignName |-> <<>>]

Blank ==
  /\ pc = "start"
  /\ lines = <<>>
  /\ delimiter = ","
  /\ idx = NoIndices
  /\ i = 0
  /\ data = <<>>
  /\ src = <<>>
  /\ leads = <<>>
  /\ leadSrc = <<>>
  /\ metrics = NoMetrics

\* the null of a React state that holds an object
Null == [null |-> TRUE]

\* the null of a React state that holds an error message
NoError == "null"

\* no pure function is under call
NoCall == arg = <<>> /\ ret = <<>>

\* App and FileUpload right after mounting
Mounted ==
  /\ appData = Null
  /\ uploadError = NoError
  /\ localError = NoError
  /\ reading = {}

\* the Dashboard's own state as useState creates it
NoDashboard ==
  /\ mainTab = "dashboard"
  /\ activeTab = "insights"
  /\ chatSession = Null
  /\ messages = <<>>
  /\ inputMessage = <<>>
  /\ isChatLoading = FALSE
  /\ sends = {}
  /\ loadingAi = FALSE
  /\ aiResult = Null
  /\ loadingScript = FALSE
  /\ salesScript = <<>>
  /\ calls = {}

Init == csvText \in Texts /\ Blank /\ NoCall /\ Mounted /\ NoDashboard

LeadsInit == csvText \in LeadTexts /\ Blank /\ NoCall /\ Mounted /\ NoDashboard

\* parseCSV up to the row loop
parseCSV_begin ==
  /\ pc = "start"
  /\ lines' = nonEmptyLines(csvText)
  /\ IF Len(lines') < 2
     THEN pc' = "returned" /\ UNCHANGED <<delimiter, idx, i>>
     ELSE /\ delimiter' = detectDelimiter(lines'[1])
          /\ \E headers \in {headersOf(lines'[1], delimiter')} : idx' = campaignIndices(headers)
          /\ i' = 1
          /\ pc' = "rows"
  /\ UNCHANGED <<csvText, data, src, leads, leadSrc, metrics, arg, ret, appData, uploadError, localError, reading>>
  /\ UNCHANGED dashVars

\* one iteration of the row loop of parseCSV on lines[i]
parseCSV_row ==
  /\ pc = "rows"
  /\ i < Len(lines)
  /\ \E values \in {splitLine(lines[i + 1], delimiter)} :
     \E spend \in {numericField(values, idx.spend)}, impressions \in {numericField(values, idx.impressions)},
        clicks \in {numericField(values, idx.clicks)}, results \in {numericField(values, idx.results)},
        campaignName \in {resolveName(values, idx.name, i)} :
       IF Len(values) < 1 THEN pc' = pc /\ i' = i + 1 /\ UNCHANGED <<data, src>>
       ELSE IF \/ IsTypeError(spend) \/ IsTypeError(impressions)
               \/ IsTypeError(clicks) \/ IsTypeError(results)
               \/ campaignName = Undefined
            THEN pc' = "threw" /\ UNCHANGED <<i, data, src>>
       ELSE /\ pc' = pc
            /\ i' = i + 1
            /\ IF isFiltered(campaignName, spend, impressions, clicks)
               THEN UNCHANGED <<data, src>>
               ELSE /\ data' = Append(data, [campaignName |-> campaignName, spend |-> spend,
                                             impressions |-> impressions, clicks |-> clicks,
                                             results |-> results])
                    /\ src' = Append(src, i)
  /\ UNCHANGED <<csvText, lines, delimiter, idx, leads, leadSrc, metrics, arg, ret, appData, uploadError, localError, reading>>
  /\ UNCHANGED dashVars

\* return data
parseCSV_return ==
  /\ pc = "rows"
  /\ i >= Len(lines)
  /\ pc' = "returned"
  /\ UNCHANGED <<csvText, lines, delimiter, idx, i, data, src, leads, leadSrc, metrics, arg, ret, appData, uploadError, localError, reading>>
  /\ UNCHANGED dashVars

\* calculateMetrics(data) on the parsed records
calculateMetrics_call ==
  /\ pc = "returned"
  /\ metrics' = calculateMetrics(data)
  /\ pc' = "done"
  /\ UNCHANGED <<csvText, lines, delimiter, idx, i, data, src, leads, leadSrc, arg, ret, appData, uploadError, localError, reading>>
  /\ UNCHANGED dashVars

\* parseLeadsCSV up to the row loop
parseLeadsCSV_begin ==
  /\ pc = "start"
  /\ lines' = nonEmptyLines(csvText)
  /\ IF Len(lines') < 2
     THEN pc' = "leadsReturned" /\ UNCHANGED <<delimiter, idx, i>>
     ELSE /\ delimiter' = detectDelimiter(lines'[1])
          /\ \E headers \in {headersOf(lines'[1], delimiter')} : idx' = leadIndices(headers)
          /\ i' = 1
          /\ pc' = "leadRows"
  /\ UNCHANGED <<csvText, data, src, leads, leadSrc, metrics, arg, ret, appData, uploadError, localError, reading>>
  /\ UNCHANGED dashVars

\* one iteration of the row loop of parseLeadsCSV on lines[i]
parseLeadsCSV_row ==
  /\ pc = "leadRows"
  /\ i < Len(lines)
  /\ \E values \in {splitLine(lines[i + 1], delimiter)} :
       IF Len(values) < 1 THEN pc' = pc /\ i' = i + 1 /\ UNCHANGED <<leads, leadSrc>>
       ELSE \E now \in IsoNow :
              \E lead \in {leadRecord(values, idx, i, now)} :
                IF \E f \in {"id", "createdTime", "fullName", "email", "phoneNumber", "campaignName"} : lead[f] = Thrown
                THEN pc' = "threw" /\ UNCHANGED <<i, leads, leadSrc>>
                ELSE /\ leads' = Append(leads, lead)
                     /\ leadSrc' = Append(leadSrc, i)
                     /\ i' = i + 1
                     /\ pc' = pc
  /\ UNCHANGED <<csvText, lines, delimiter, idx, data, src, metrics, arg, ret, appData, uploadError, localError, reading>>
  /\ UNCHANGED dashVars

\* return leads
parseLeadsCSV_return ==
  /\ pc = "leadRows"
  /\ i >= Len(lines)
  /\ pc' = "leadsReturned"
  /\ UNCHANGED <<csvText, lines, delimiter, idx, i, data, src, leads, leadSrc, metrics, arg, ret, appData, uploadError, localError, reading>>
  /\ UNCHANGED dashVars

Next ==
  \/ parseCSV_begin
  \/ parseCSV_row
  \/ parseCSV_return
  \/ calculateMetrics_call

Spec == Init /\ [][Next]_vars

LeadsNext ==
  \/ parseLeadsCSV_begin
  \/ parseLeadsCSV_row
  \/ parseLeadsCSV_return

LeadsSpec == LeadsInit /\ [][LeadsNext]_vars

TypeOK ==
  /\ pc \in {"start", "rows", "returned", "done", "threw", "leadRows", "leadsReturned", "mapped", "leadsMapped"}
  /\ i \in 0..(MaxRows + 1)
  /\ Len(src) = Len(data)
  /\ Len(leadSrc) = Len(leads)

(***************************************************************************)
(* parseValue called on one cell.  arg is the argument of the call under   *)
(* check and ret what it returned.                                         *)
(***************************************************************************)
MaxValueLen == 4

ValueChars == {"0", "1", ",", ".", "-", "x"}

\* every string over chars of length at most n
StringsUpTo(chars, n) == UNION {[1..k -> chars] : k \in 0..n}

ValueExamples ==
  {<<"1", ".", "2", "3", "4", ",", "5", "6">>, <<"1", ",", "2", "3", "4", ".", "5", "6">>, <<"R", "$", " ", "1", ".", "0", "0", "0", ",", "0", "0">>, <<"1", ",", "2", "3", "4", ",", "5", "6">>, <<"1", "0", "0", ",", "0", "0">>, <<"-", "1", "2", ",", "5">>}

\* a cell of MaxDoubleDigits + 1 digits
LongDigits == [k \in 1..(MaxDoubleDigits + 1) |-> "9"]

\* the cells parseValue is called on; values[idx] is undefined on a short row
ValueInputs ==
  StringsUpTo(ValueChars, MaxValueLen) \cup ValueExamples \cup {Undefined}
    \cup {LongDigits, <<"-">> \o LongDigits, <<"R", "$", " ">> \o LongDigits \o <<",", "5", "0">>}

ValueInit ==
  /\ arg \in ValueInputs
  /\ ret = <<>>
  /\ csvText = <<>>
  /\ Blank
  /\ Mounted
  /\ NoDashboard

\* const x = parseValue(arg)
parseValue_call ==
  /\ pc = "start"
  /\ ret' = parseValue(arg)
  /\ pc' = "done"
  /\ UNCHANGED <<csvText, lines, delimiter, idx, i, data, src, leads, leadSrc, metrics, arg, appData, uploadError, localError, reading>>
  /\ UNCHANGED dashVars

ValueNext == parseValue_call

ValueSpec == ValueInit /\ [][ValueNext]_vars

(***************************************************************************)
(* splitLine called on one line with one delimiter.  arg is the line,      *)
(* delimiter the delimiter, ret the fields returned.                       *)
(***************************************************************************)
MaxLineLen == 5

LineChars == {"a", ",", "\t", "\"", " "}

Delimiters == {",", ";", "\t"}

LineExamples ==
  {<<"a", ",", "\"", "b", ",", "c", "\"", ",", "d">>, <<"a", ",", "\"", "b", "\"", "\"", "c", "\"", ",", "d">>, <<"\"", "s", "a", "y", " ", "\"", "\"", "h", "i", "\"", "\"", "\"">>, <<"x", "\"", "\"", "y">>, <<"a", ";", "\"", "b", ";", "c", "\"", ";", "d">>, <<" ", "a", " ", ",", ",", "b", " ">>}

LineInputs == StringsUpTo(LineChars, MaxLineLen) \cup LineExamples

SplitInit ==
  /\ arg \in LineInputs
  /\ ret = <<>>
  /\ csvText = <<>>
  /\ Blank
  /\ Mounted
  /\ NoDashboard

\* const values = splitLine(arg, delim), delim one of detectDelimiter's results
splitLine_call ==
  /\ pc = "start"
  /\ \E delim \in Delimiters :
       /\ delimiter' = delim
       /\ ret' = splitLine(arg, delim)
  /\ pc' = "done"
  /\ UNCHANGED <<csvText, lines, idx, i, data, src, leads, leadSrc, metrics, arg, appData, uploadError, localError, reading>>
  /\ UNCHANGED dashVars

SplitNext == splitLine_call

SplitSpec == SplitInit /\ [][SplitNext]_vars

(***************************************************************************)
(* detectDelimiter called on one line.  arg is the line, delimiter the     *)
(* delimiter returned.                                                     *)
(***************************************************************************)
MaxHeaderLen == 5

HeaderChars == {"a", ",", ";", "\t"}

DelimiterExamples == {<<"a", ";", "b", ";", "c", ";", "d", ",", "e">>, <<"a", "b", "c">>, <<"a", "\t", "b", "\t", "c", ",", "d", ";", "e">>, <<"a", "\t", "b", ",", "c", ";", "d">>}

DelimiterInputs == StringsUpTo(HeaderChars, MaxHeaderLen) \cup DelimiterExamples

DelimiterInit ==
  /\ arg \in DelimiterInputs
  /\ ret = <<>>
  /\ csvText = <<>>
  /\ Blank
  /\ Mounted
  /\ NoDashboard

\* const delimiter = detectDelimiter(arg)
detectDelimiter_call ==
  /\ pc = "start"
  /\ delimiter' = detectDelimiter(arg)
  /\ pc' = "done"
  /\ UNCHANGED <<csvText, lines, ret, idx, i, data, src, leads, leadSrc, metrics, arg, appData, uploadError, localError, reading>>
  /\ UNCHANGED dashVars

DelimiterNext == detectDelimiter_call

DelimiterSpec == DelimiterInit /\ [][DelimiterNext]_vars

(***************************************************************************)
(* Header mapping of parseCSV and parseLeadsCSV on one header line.  arg   *)
(* is the first line of the text, idx the indices resolved from it.        *)
(***************************************************************************)
MaxHeaderCols == 3

HeaderCells ==
  {<<"C", "a", "m", "p", "a", "n", "h", "a">>, <<"V", "a", "l", "o", "r", " ", "U", "s", "a", "d", "o", " ", "(", "B", "R", "L", ")">>, <<"N", "o", "m", "e", " ", "d", "a", " ", "C", "a", "m", "p", "a", "n", "h", "a">>, <<"I", "m", "p", "r", "e", "s", "s", "õ", "e", "s">>, <<" ", "C", "L", "I", "Q", "U", "E", "S", " ">>,
   <<"C", "a", "m", "p", "a", "i", "g", "n", " ", "R", "e", "s", "u", "l", "t", "s">>, <<"C", "i", "d", "a", "d", "e">>, <<"E", "-", "m", "a", "i", "l">>, <<"T", "e", "l", "e", "f", "o", "n", "e">>}

RECURSIVE join(_, _)
\* the cells joined with the delimiter
join(fields, delim) ==
  IF Len(fields) = 1 THEN fields[1]
  ELSE fields[1] \o <<delim>> \o join(Tail(fields), delim)

\* header lines of 1 to MaxHeaderCols columns
HeaderInputs == {join(cells, ",") : cells \in UNION {[1..n -> HeaderCells] : n \in 1..MaxHeaderCols}}

HeaderInit ==
  /\ arg \in HeaderInputs
  /\ ret = <<>>
  /\ csvText = <<>>
  /\ Blank
  /\ Mounted
  /\ NoDashboard

\* parseCSV from the delimiter detection to idxResults, on firstLine = arg
parseCSV_headers ==
  /\ pc = "start"
  /\ delimiter' = detectDelimiter(arg)
  /\ \E headers \in {headersOf(arg, delimiter')} : idx' = campaignIndices(headers)
  /\ pc' = "mapped"
  /\ UNCHANGED <<csvText, lines, ret, i, data, src, leads, leadSrc, metrics, arg, appData, uploadError, localError, reading>>
  /\ UNCHANGED dashVars

\* parseLeadsCSV from the delimiter detection to idxCampaign, on firstLine = arg
parseLeadsCSV_headers ==
  /\ pc = "start"
  /\ delimiter' = detectDelimiter(arg)
  /\ \E headers \in {headersOf(arg, delimiter')} : idx' = leadIndices(headers)
  /\ pc' = "leadsMapped"
  /\ UNCHANGED <<csvText, lines, ret, i, data, src, leads, leadSrc, metrics, arg, appData, uploadError, localError, reading>>
  /\ UNCHANGED dashVars

HeaderNext ==
  \/ parseCSV_headers
  \/ parseLeadsCSV_headers

HeaderSpec == HeaderInit /\ [][HeaderNext]_vars

(***************************************************************************)
(* parseCSV as one call, for its callers                                   *)
(***************************************************************************)
\* what the caller's try block sees when parseCSV raises
ParseThrew == <<TypeError>>

RECURSIVE parseRows(_, _, _, _, _)
\* the row loop of parseCSV from i = row on, acc the records pushed so far
parseRows(ls, delim, ix, row, acc) ==
  IF row >= Len(ls) THEN acc
  ELSE LET values == splitLine(ls[row + 1], delim)
           spend == numericField(values, ix.spend)
           impressions == numericField(values, ix.impressions)
           clicks == numericField(values, ix.clicks)
           results == numericField(values, ix.results)
           campaignName == resolveName(values, ix.name, row)
       IN IF Len(values) < 1 THEN parseRows(ls, delim, ix, row + 1, acc)
          ELSE IF \/ IsTypeError(spend) \/ IsTypeError(impressions)
                  \/ IsTypeError(clicks) \/ IsTypeError(results)
                  \/ campaignName = Undefined
               THEN ParseThrew
          ELSE IF isFiltered(campaignName, spend, impressions, clicks)
               THEN parseRows(ls, delim, ix, row + 1, acc)
          ELSE parseRows(ls, delim, ix, row + 1,
                         Append(acc, [campaignName |-> campaignName, spend |-> spend,
                                      impressions |-> impressions, clicks |-> clicks,
                                      results |-> results]))

parseCSV(text) ==
  LET ls == nonEmptyLines(text)
  IN IF Len(ls) < 2 THEN <<>>
     ELSE LET delim == detectDelimiter(ls[1])
          IN parseRows(ls, delim, campaignIndices(headersOf(ls[1], delim)), 1, <<>>)

(***************************************************************************)
(* Upload path: FileUpload.handleFile starts a FileReader on a dropped or  *)
(* chosen file, the reader's onload hands the text to App's                *)
(* handleFileProcessed.  appData is App's data state, uploadError App's    *)
(* error state, localError FileUpload's error state, reading the readers   *)
(* in flight: the file, and whether the FileUpload that started the read   *)
(* is still mounted.                                                       *)
(***************************************************************************)
MaxReads == 2

UploadTexts ==
  {<<>>,
   <<" ", " ", " ">>,
   joinLines(<<HeaderCampaign>>),
   joinLines(<<HeaderCampaign, <<"T", "o", "t", "a", "l", ",", "3", "0", "0", ",", "3", "0", "0", "0", ",", "1", "3", "0", ",", "5">>>>),
   joinLines(<<HeaderCampaign, RowAdA>>),
   joinLines(<<HeaderCampaign, RowAdB, RowAdA>>)}

\* csv: file.type === "text/csv" || file.name.endsWith('.csv')
Files == [csv : BOOLEAN, text : UploadTexts]

InvalidFileMessage == "Por favor, envie um arquivo CSV válido."

ReadFailedMessage == "Falha ao ler o arquivo."

NoDataMessage == "Nenhum dado válido encontrado."

UnexpectedMessage == "Erro inesperado ao processar o arquivo."

\* the Dashboard is rendered in place of FileUpload
dashboardShown == appData # Null

\* FileUpload's displayError = localError || errorMessage, rendered by FileUpload only
displayError ==
  IF dashboardShown THEN NoError
  ELSE IF localError # NoError THEN localError
  ELSE uploadError

AppInit ==
  /\ csvText = <<>>
  /\ Blank
  /\ NoCall
  /\ Mounted
  /\ NoDashboard

\* handleChange / handleDrop -> handleFile(file)
handleFile(file) ==
  /\ ~dashboardShown
  /\ IF ~file.csv
     THEN localError' = InvalidFileMessage /\ UNCHANGED reading
     ELSE /\ Cardinality(reading) < MaxReads
          /\ [file |-> file, mounted |-> TRUE] \notin reading
          /\ localError' = NoError
          /\ reading' = reading \cup {[file |-> file, mounted |-> TRUE]}
  /\ UNCHANGED <<csvText, pc, lines, delimiter, idx, i, data, src, leads, leadSrc, metrics, arg, ret, appData, uploadError>>
  /\ UNCHANGED dashVars

\* reader.onload: if (text) onFileProcessed(text), that is App's handleFileProcessed
reader_onload(r) ==
  /\ r \in reading
  /\ \E parsedData \in {parseCSV(r.file.text)} :
       IF ~Truthy(r.file.text)
       THEN reading' = reading \ {r} /\ UNCHANGED <<appData, uploadError, localError>>
       ELSE IF parsedData = ParseThrew
       THEN /\ uploadError' = UnexpectedMessage
            /\ reading' = reading \ {r}
            /\ UNCHANGED <<appData, localError>>
       ELSE IF Len(parsedData) > 0
       THEN /\ uploadError' = NoError
            /\ appData' = [value |-> parsedData]
            /\ localError' = NoError
            /\ reading' = {[q EXCEPT !.mounted = FALSE] : q \in reading \ {r}}
       ELSE /\ uploadError' = NoDataMessage
            /\ reading' = reading \ {r}
            /\ UNCHANGED <<appData, localError>>
  /\ UNCHANGED <<csvText, pc, lines, delimiter, idx, i, data, src, leads, leadSrc, metrics, arg, ret>>
  /\ UNCHANGED dashVars

\* reader.onerror: setLocalError, a no-op once the FileUpload is unmounted
reader_onerror(r) ==
  /\ r \in reading
  /\ reading' = reading \ {r}
  /\ localError' = IF r.mounted THEN ReadFailedMessage ELSE localError
  /\ UNCHANGED <<csvText, pc, lines, delimiter, idx, i, data, src, leads, leadSrc, metrics, arg, ret, appData, uploadError>>
  /\ UNCHANGED dashVars

\* Dashboard's onReset: setData(null); setUploadError(null); FileUpload mounts anew
onReset ==
  /\ dashboardShown
  /\ appData' = Null
  /\ uploadError' = NoError
  /\ UNCHANGED <<csvText, pc, lines, delimiter, idx, i, data, src, leads, leadSrc, metrics, arg, ret, localError, reading>>
  /\ UNCHANGED dashVars

AppNext ==
  \/ \E file \in Files : handleFile(file)
  \/ \E r \in reading : reader_onload(r)
  \/ \E r \in reading : reader_onerror(r)
  \/ onReset

AppSpec == AppInit /\ [][AppNext]_vars

(***************************************************************************)
(* Dashboard: the component App renders once its data state is set.        *)
(* appData.value is the array of the data prop, the same array object as   *)
(* App's state; metrics and leads are the Dashboard states of those names; *)
(* sends are the handleSendMessage calls in flight, calls the calls of the *)
(* Gemini service in flight.                                               *)
(***************************************************************************)
MaxCalls == 2

MaxSends == 2

MaxChunks == 2

MaxMessages == 4

DashRowLines == {RowAdA, RowAdB, <<"A", "d", " ", "C", ",", "2", "0", "0", ",", "1", "0", "0", "0", ",", "4", "0", ",", "1", "0">>, <<"A", "d", " ", "D", ",", "5", "0", ",", "5", "0", "0", ",", "5", ",", "1">>}

DashTexts == textsOf({HeaderNome}, DashRowLines)

\* what App hands to the Dashboard: handleFileProcessed sets data only when parsedData.length > 0
DashData == {parseCSV(text) : text \in DashTexts} \ {<<>>, ParseThrew}

RECURSIVE sortBySpend(_)
\* data.sort((a, b) => b.spend - a.spend): stable, larger spend first
sortBySpend(records) ==
  IF records = <<>> THEN <<>>
  ELSE LET rest == sortBySpend(SubSeq(records, 1, Len(records) - 1))
           last == records[Len(records)]
           keep == Cardinality({k \in 1..Len(rest) : ~Less(rest[k].spend, last.spend)})
       IN SubSeq(rest, 1, keep) \o <<last>> \o SubSeq(rest, keep + 1, Len(rest))

\* the render below the !metrics return: on the dashboard tab the chart and the
\* table sort the data prop in place
render(tab, records) == IF tab = "dashboard" THEN sortBySpend(records) ELSE records

Chat == [model |-> "gemini-3-flash-preview"]

Greeting == <<"O", "l", "á", "!", " ", "A", "n", "a", "l", "i", "s", "e", "i", " ", "s", "e", "u", "s", " ", "d", "a", "d", "o", "s", ".", " ", "Q", "u", "e", "r", " ", "s", "a", "b", "e", "r", " ", "m", "a", "i", "s", " ", "s", "o", "b", "r", "e", " ", "a", "l", "g", "u", "m", "a", " ", "c", "a", "m", "p", "a", "n", "h", "a", " ", "e", "s", "p", "e", "c", "í", "f", "i", "c", "a", " ", "o", "u", " ", "p", "r", "e", "c", "i", "s", "a", " ", "d", "e", " ", "a", "j", "u", "d", "a", " ", "c", "o", "m", " ", "o", " ", "R", "O", "I", "?">>

Apology == <<"D", "e", "s", "c", "u", "l", "p", "e", ",", " ", "t", "i", "v", "e", " ", "u", "m", " ", "p", "r", "o", "b", "l", "e", "m", "a", " ", "a", "o", " ", "p", "r", "o", "c", "e", "s", "s", "a", "r", " ", "s", "u", "a", " ", "m", "e", "n", "s", "a", "g", "e", "m", ".", " ", "T", "e", "n", "t", "e", " ", "n", "o", "v", "a", "m", "e", "n", "t", "e", ".">>

DefaultScript == <<"O", "l", "á", "!", " ", "V", "i", " ", "q", "u", "e", " ", "v", "o", "c", "ê", " ", "s", "e", " ", "c", "a", "d", "a", "s", "t", "r", "o", "u", " ", "e", "m", " ", "n", "o", "s", "s", "o", " ", "a", "n", "ú", "n", "c", "i", "o", ".", " ", "C", "o", "m", "o", " ", "p", "o", "s", "s", "o", " ", "a", "j", "u", "d", "a", "r", " ", "v", "o", "c", "ê", " ", "h", "o", "j", "e", "?">>

Geral == <<"G", "e", "r", "a", "l">>

\* response.text of generateSalesScript, possibly empty
ScriptReplies == {<<>>, <<"O", "i", " ", "[", "N", "o", "m", "e", "]", "!">>}

\* what generateMarketingInsights returns: the parsed answer or the catch block's fallback
AiAnswers == {[insights |-> "parsed"], [insights |-> "fallback"]}

\* what the user types into the chat input
ChatInputs == {<<>>, <<" ">>, <<"q">>, <<"r">>}

\* c.text of a streamed chunk, possibly empty
ChunkTexts == {<<>>, <<"a">>}

freshId(inFlight) == CHOOSE n \in 1..(Cardinality(inFlight) + 1) : \A c \in inFlight : c.id # n

DashInit ==
  /\ csvText = <<>>
  /\ Blank
  /\ NoCall
  /\ appData \in {[value |-> d] : d \in DashData}
  /\ uploadError = NoError
  /\ localError = NoError
  /\ reading = {}
  /\ NoDashboard

\* the Dashboard has rendered below the !metrics return
rendered == dashboardShown /\ metrics # NoMetrics

\* useEffect(..., [data]) after the first render, with the start of
\* fetchInsights up to its first await, and the render that setMetrics causes
Dashboard_useEffect ==
  /\ dashboardShown
  /\ metrics = NoMetrics
  /\ \E summary \in {calculateMetrics(appData.value)} :
       /\ metrics' = summary
       /\ loadingAi' = TRUE
       /\ calls' = calls \cup {[id |-> freshId(calls), fn |-> "generateMarketingInsights",
                                caller |-> "fetchInsights", campaignName |-> summary.bestCampaignName]}
  /\ chatSession' = Chat
  /\ messages' = <<[role |-> "model", text |-> Greeting]>>
  /\ appData' = [value |-> render(mainTab, appData.value)]
  /\ UNCHANGED <<csvText, pc, lines, delimiter, idx, i, data, src, leads, leadSrc, arg, ret, uploadError, localError, reading>>
  /\ UNCHANGED <<mainTab, activeTab, inputMessage, isChatLoading, sends, aiResult, loadingScript, salesScript>>

\* onClick={() => setMainTab(tab)}, and the render it causes
setMainTab(tab) ==
  /\ rendered
  /\ mainTab' = tab
  /\ appData' = [value |-> render(tab, appData.value)]
  /\ UNCHANGED <<csvText, pc, lines, delimiter, idx, i, data, src, leads, leadSrc, metrics, arg, ret, uploadError, localError, reading>>
  /\ UNCHANGED <<activeTab, chatSession, messages, inputMessage, isChatLoading, sends, loadingAi, aiResult, loadingScript, salesScript, calls>>

\* onClick={() => setActiveTab(tab)}
setActiveTab(tab) ==
  /\ rendered
  /\ mainTab = "dashboard"
  /\ activeTab' = tab
  /\ UNCHANGED <<csvText, pc, lines, delimiter, idx, i, data, src, leads, leadSrc, metrics, arg, ret, appData, uploadError, localError, reading>>
  /\ UNCHANGED <<mainTab, chatSession, messages, inputMessage, isChatLoading, sends, loadingAi, aiResult, loadingScript, salesScript, calls>>

\* fetchInsights after await generateMarketingInsights, which catches its own
\* errors, up to the await of generateSalesScript
generateMarketingInsights_settle(call) ==
  /\ call \in calls
  /\ call.fn = "generateMarketingInsights"
  /\ aiResult' \in AiAnswers
  /\ loadingAi' = FALSE
  /\ IF call.campaignName # <<>>
     THEN /\ loadingScript' = TRUE
          /\ calls' = (calls \ {call}) \cup {[call EXCEPT !.fn = "generateSalesScript"]}
     ELSE /\ calls' = calls \ {call}
          /\ UNCHANGED loadingScript
  /\ UNCHANGED <<csvText, pc, lines, delimiter, idx, i, data, src, leads, leadSrc, metrics, arg, ret, appData, uploadError, localError, reading>>
  /\ UNCHANGED <<mainTab, activeTab, chatSession, messages, inputMessage, isChatLoading, sends, salesScript>>

\* the refresh button of the sales script, up to the await
handleRefreshScript ==
  /\ rendered
  /\ mainTab = "leads"
  /\ Cardinality(calls) < MaxCalls
  /\ loadingScript' = TRUE
  /\ calls' = calls \cup {[id |-> freshId(calls), fn |-> "generateSalesScript", caller |-> "handleRefreshScript",
                           campaignName |-> IF metrics.bestCampaignName # <<>> THEN metrics.bestCampaignName ELSE Geral]}
  /\ UNCHANGED <<csvText, pc, lines, delimiter, idx, i, data, src, leads, leadSrc, metrics, arg, ret, appData, uploadError, localError, reading>>
  /\ UNCHANGED <<mainTab, activeTab, chatSession, messages, inputMessage, isChatLoading, sends, loadingAi, aiResult, salesScript>>

\* generateSalesScript resolves: setSalesScript(script); setLoadingScript(false)
generateSalesScript_resolve(call) ==
  /\ call \in calls
  /\ call.fn = "generateSalesScript"
  /\ \E text \in ScriptReplies : salesScript' = IF text # <<>> THEN text ELSE DefaultScript
  /\ loadingScript' = FALSE
  /\ calls' = calls \ {call}
  /\ UNCHANGED <<csvText, pc, lines, delimiter, idx, i, data, src, leads, leadSrc, metrics, arg, ret, appData, uploadError, localError, reading>>
  /\ UNCHANGED <<mainTab, activeTab, chatSession, messages, inputMessage, isChatLoading, sends, loadingAi, aiResult>>

\* generateSalesScript rejects: it has no catch and neither caller has one, so
\* the statements after the await are not run
generateSalesScript_reject(call) ==
  /\ call \in calls
  /\ call.fn = "generateSalesScript"
  /\ calls' = calls \ {call}
  /\ UNCHANGED <<csvText, pc, lines, delimiter, idx, i, data, src, leads, leadSrc, metrics, arg, ret, appData, uploadError, localError, reading>>
  /\ UNCHANGED <<mainTab, activeTab, chatSession, messages, inputMessage, isChatLoading, sends, loadingAi, aiResult, loadingScript, salesScript>>

DashNext ==
  \/ Dashboard_useEffect
  \/ \E tab \in {"dashboard", "leads"} : setMainTab(tab)
  \/ \E tab \in {"insights", "chat"} : setActiveTab(tab)
  \/ \E call \in calls : generateMarketingInsights_settle(call)
  \/ handleRefreshScript
  \/ \E call \in calls : generateSalesScript_resolve(call)
  \/ \E call \in calls : generateSalesScript_reject(call)

DashSpec == DashInit /\ [][DashNext]_vars

\* a call of the Gemini service in flight comes to an end, one way or the other
settles ==
  \E call \in calls :
    \/ generateMarketingInsights_settle(call)
    \/ generateSalesScript_resolve(call)
    \/ generateSalesScript_reject(call)

\* the Dashboard with every call in flight settling in the end
FairDashSpec == DashInit /\ [][DashNext]_vars /\ WF_vars(settles)

(***************************************************************************)
(* Dashboard chat: handleSendMessage and the stream it reads.  A send in   *)
(* flight is [id, stage, fullText, chunks, placeholder]: fullText and the  *)
(* number of chunks read are locals of the call, placeholder the position  *)
(* at which the call appended its empty model message (0 before that).     *)
(***************************************************************************)
ChatInit ==
  /\ csvText = <<>>
  /\ Blank
  /\ NoCall
  /\ appData = [value |-> parseCSV(EndToEndText)]
  /\ uploadError = NoError
  /\ localError = NoError
  /\ reading = {}
  /\ NoDashboard

\* the chat input is on display
chatShown == rendered /\ mainTab = "dashboard" /\ activeTab = "chat"

\* onChange={(e) => setInputMessage(e.target.value)}
setInputMessage(text) ==
  /\ chatShown
  /\ inputMessage' = text
  /\ UNCHANGED <<csvText, pc, lines, delimiter, idx, i, data, src, leads, leadSrc, metrics, arg, ret, appData, uploadError, localError, reading>>
  /\ UNCHANGED <<mainTab, activeTab, chatSession, messages, isChatLoading, sends, loadingAi, aiResult, loadingScript, salesScript, calls>>

\* handleSendMessage up to await chatSession.sendMessageStream; the Enter key
\* calls it whether or not isChatLoading is set
handleSendMessage ==
  /\ chatShown
  /\ IF trim(inputMessage) = <<>> \/ chatSession = Null
     THEN UNCHANGED <<inputMessage, messages, isChatLoading, sends>>
     ELSE /\ Cardinality(sends) < MaxSends
          /\ Len(messages) < MaxMessages
          /\ inputMessage' = <<>>
          /\ messages' = Append(messages, [role |-> "user", text |-> inputMessage])
          /\ isChatLoading' = TRUE
          /\ sends' = sends \cup {[id |-> freshId(sends), stage |-> "awaiting", fullText |-> <<>>,
                                   chunks |-> 0, placeholder |-> 0]}
  /\ UNCHANGED <<csvText, pc, lines, delimiter, idx, i, data, src, leads, leadSrc, metrics, arg, ret, appData, uploadError, localError, reading>>
  /\ UNCHANGED <<mainTab, activeTab, chatSession, loadingAi, aiResult, loadingScript, salesScript, calls>>

\* sendMessageStream resolves: let fullText = ''; the placeholder is appended
sendMessageStream_resolve(s) ==
  /\ s \in sends
  /\ s.stage = "awaiting"
  /\ messages' = Append(messages, [role |-> "model", text |-> <<>>])
  /\ sends' = (sends \ {s}) \cup {[s EXCEPT !.stage = "streaming", !.placeholder = Len(messages) + 1]}
  /\ UNCHANGED <<csvText, pc, lines, delimiter, idx, i, data, src, leads, leadSrc, metrics, arg, ret, appData, uploadError, localError, reading>>
  /\ UNCHANGED <<mainTab, activeTab, chatSession, inputMessage, isChatLoading, loadingAi, aiResult, loadingScript, salesScript, calls>>

\* one turn of for await (const chunk of result)
stream_chunk(s, text) ==
  /\ s \in sends
  /\ s.stage = "streaming"
  /\ s.chunks < MaxChunks
  /\ IF text # <<>>
     THEN /\ sends' = (sends \ {s}) \cup {[s EXCEPT !.fullText = s.fullText \o text, !.chunks = s.chunks + 1]}
          /\ messages' = [messages EXCEPT ![Len(messages)].text = s.fullText \o text]
     ELSE /\ sends' = (sends \ {s}) \cup {[s EXCEPT !.chunks = s.chunks + 1]}
          /\ UNCHANGED messages
  /\ UNCHANGED <<csvText, pc, lines, delimiter, idx, i, data, src, leads, leadSrc, metrics, arg, ret, appData, uploadError, localError, reading>>
  /\ UNCHANGED <<mainTab, activeTab, chatSession, inputMessage, isChatLoading, loadingAi, aiResult, loadingScript, salesScript, calls>>

\* the stream ends: finally { setIsChatLoading(false) }
stream_end(s) ==
  /\ s \in sends
  /\ s.stage = "streaming"
  /\ isChatLoading' = FALSE
  /\ sends' = sends \ {s}
  /\ UNCHANGED <<csvText, pc, lines, delimiter, idx, i, data, src, leads, leadSrc, metrics, arg, ret, appData, uploadError, localError, reading>>
  /\ UNCHANGED <<mainTab, activeTab, chatSession, messages, inputMessage, loadingAi, aiResult, loadingScript, salesScript, calls>>

\* sendMessageStream or the stream raises: the catch block, then finally
stream_throw(s) ==
  /\ s \in sends
  /\ messages' = Append(messages, [role |-> "model", text |-> Apology])
  /\ isChatLoading' = FALSE
  /\ sends' = sends \ {s}
  /\ UNCHANGED <<csvText, pc, lines, delimiter, idx, i, data, src, leads, leadSrc, metrics, arg, ret, appData, uploadError, localError, reading>>
  /\ UNCHANGED <<mainTab, activeTab, chatSession, inputMessage, loadingAi, aiResult, loadingScript, salesScript, calls>>

ChatNext ==
  \/ Dashboard_useEffect
  \/ \E tab \in {"insights", "chat"} : setActiveTab(tab)
  \/ \E text \in ChatInputs : setInputMessage(text)
  \/ handleSendMessage
  \/ \E s \in sends : sendMessageStream_resolve(s)
  \/ \E s \in sends, text \in ChunkTexts : stream_chunk(s, text)
  \/ \E s \in sends : stream_end(s)
  \/ \E s \in sends : stream_throw(s)

ChatSpec == ChatInit /\ [][ChatNext]_vars

(***************************************************************************)
(* Dashboard leads tab: the lead list is loaded from a file, a click on a  *)
(* lead's WhatsApp button marks it, the list can be cleared.               *)
(***************************************************************************)
RECURSIVE parseLeadRows(_, _, _, _, _, _)
\* the row loop of parseLeadsCSV from i = row on, acc the leads pushed so far
parseLeadRows(ls, delim, ix, row, now, acc) ==
  IF row >= Len(ls) THEN acc
  ELSE LET values == splitLine(ls[row + 1], delim)
           lead == leadRecord(values, ix, row, now)
       IN IF Len(values) < 1 THEN parseLeadRows(ls, delim, ix, row + 1, now, acc)
          ELSE IF \E f \in {"id", "createdTime", "fullName", "email", "phoneNumber", "campaignName"} : lead[f] = Thrown
               THEN ParseThrew
          ELSE parseLeadRows(ls, delim, ix, row + 1, now, Append(acc, lead))

parseLeadsCSV(text, now) ==
  LET ls == nonEmptyLines(text)
  IN IF Len(ls) < 2 THEN <<>>
     ELSE LET delim == detectDelimiter(ls[1])
          IN parseLeadRows(ls, delim, leadIndices(headersOf(ls[1], delim)), 1, now, <<>>)

CrmInit ==
  /\ csvText = <<>>
  /\ Blank
  /\ NoCall
  /\ appData = [value |-> parseCSV(EndToEndText)]
  /\ uploadError = NoError
  /\ localError = NoError
  /\ reading = {}
  /\ NoDashboard

\* the leads tab is on display
leadsShown == rendered /\ mainTab = "leads"

\* handleLeadsUpload with its reader's onload; the file input is on display
\* while the list is empty
handleLeadsUpload(text, now) ==
  /\ leadsShown
  /\ leads = <<>>
  /\ \E parsedLeads \in {IF text # <<>> THEN parseLeadsCSV(text, now) ELSE ParseThrew} :
       leads' = IF parsedLeads = ParseThrew THEN leads ELSE parsedLeads
  /\ UNCHANGED <<csvText, pc, lines, delimiter, idx, i, data, src, leadSrc, metrics, arg, ret, appData, uploadError, localError, reading>>
  /\ UNCHANGED dashVars

\* handleWhatsAppClick(lead) on the lead of row k of the table
handleWhatsAppClick(k) ==
  /\ leadsShown
  /\ k \in 1..Len(leads)
  /\ leads' = [j \in 1..Len(leads) |->
                 IF leads[j].id = leads[k].id THEN [leads[j] EXCEPT !.status = "contacted"] ELSE leads[j]]
  /\ UNCHANGED <<csvText, pc, lines, delimiter, idx, i, data, src, leadSrc, metrics, arg, ret, appData, uploadError, localError, reading>>
  /\ UNCHANGED dashVars

\* onClick={() => setLeads([])}
clearLeads ==
  /\ leadsShown
  /\ leads # <<>>
  /\ leads' = <<>>
  /\ UNCHANGED <<csvText, pc, lines, delimiter, idx, i, data, src, leadSrc, metrics, arg, ret, appData, uploadError, localError, reading>>
  /\ UNCHANGED dashVars

CrmNext ==
  \/ Dashboard_useEffect
  \/ \E tab \in {"dashboard", "leads"} : setMainTab(tab)
  \/ \E text \in LeadTexts, now \in IsoNow : handleLeadsUpload(text, now)
  \/ \E k \in 1..Len(leads) : handleWhatsAppClick(k)
  \/ clearLeads

CrmSpec == CrmInit /\ [][CrmNext]_vars

(***************************************************************************)
(* parseCSV applied to one text, headers without the numeric columns       *)
(* included                                                                *)
(***************************************************************************)
HeaderNameResults == <<"C", "a", "m", "p", "a", "n", "h", "a", ",", "R", "e", "s", "u", "l", "t", "a", "d", "o", "s">>

HeaderAdLeads == <<"A", "n", "ú", "n", "c", "i", "o", ";", "L", "e", "a", "d", "s", ";", "C", "i", "d", "a", "d", "e">>

ParseTexts == textsOf({HeaderNameResults, HeaderAdLeads, HeaderCampaign}, RowLines \cup {<<"A", "d", " ", "F", ";", "9", ";", "R", "e", "c", "i", "f", "e">>})

ParseInit ==
  /\ arg \in ParseTexts
  /\ ret = <<>>
  /\ csvText = <<>>
  /\ Blank
  /\ Mounted
  /\ NoDashboard

\* const parsedData = parseCSV(arg)
parseCSV_call ==
  /\ pc = "start"
  /\ ret' = parseCSV(arg)
  /\ pc' = "done"
  /\ UNCHANGED <<csvText, lines, delimiter, idx, i, data, src, leads, leadSrc, metrics, arg, appData, uploadError, localError, reading>>
  /\ UNCHANGED dashVars

ParseNext == parseCSV_call

ParseSpec == ParseInit /\ [][ParseNext]_vars

(***************************************************************************)
(* Properties                                                              *)
(***************************************************************************)
NumericFields == {"spend", "impressions", "clicks", "results"}

\* the tokens of data line `row` (row = the value of i when it was decoded)
rowValues(row) == splitLine(lines[row + 1], delimiter)

\* data line `row` produced a campaign record
emitted(row) == \E k \in 1..Len(src) : src[k] = row

\* a <= b on finite numbers
Leq(a, b) == a.num * b.den <= b.num * a.den

\* number of lines of the text holding a character that is not white space
countNonEmpty(text) ==
  Len(SelectSeq(splitNewlines(text), LAMBDA line : \E p \in 1..Len(line) : line[p] \notin Whitespace))

\* C1: parseCSV is total.  No row makes it raise, every record it has pushed is
\* a name with four finite numbers, and a numeric field whose column is absent
\* from the header or whose cell is missing in the row is 0.
C1_ParseCampaignsTotal ==
  /\ pc # "threw"
  /\ \A k \in 1..Len(data) :
       /\ data[k].campaignName # Undefined
       /\ \A f \in NumericFields : IsFinite(data[k][f])
       /\ \A values \in {rowValues(src[k])} :
            \A f \in NumericFields :
              (idx[f] = -1 \/ at(values, idx[f]) = Undefined) => data[k][f] = Zero

\* a returned record whose row is shorter than a mapped column index
C1_Witness ==
  /\ pc = "returned"
  /\ \E k \in 1..Len(data) :
       \E f \in NumericFields : idx[f] > -1 /\ at(rowValues(src[k]), idx[f]) = Undefined

\* C2: parseLeadsCSV never raises and never skips a row: on return there is one
\* lead per non-empty line after the header, record k coming from data line k.
C2_ParseLeadsNeverSkips ==
  /\ pc # "threw"
  /\ pc = "leadsReturned" =>
       /\ countNonEmpty(csvText) >= 1 => Len(leads) = countNonEmpty(csvText) - 1
       /\ countNonEmpty(csvText) = 0 => Len(leads) = 0
       /\ \A k \in 1..Len(leads) : leadSrc[k] = k

\* two leads returned, one of them from a row that is shorter than the header
C2_Witness ==
  /\ pc = "leadsReturned"
  /\ Len(leads) = 2
  /\ \E k \in 1..2 : idx.phone > -1 /\ at(rowValues(leadSrc[k]), idx.phone) = Undefined

\* C3: a decoded data row is left out exactly when its resolved name, lower-cased,
\* contains "total" or "results", or its spend, impressions and clicks are all 0.
C3_RowFiltering ==
  pc \in {"rows", "returned", "done"} =>
    \A row \in 1..(i - 1) :
      \A values \in {rowValues(row)} :
        \A name \in {toLowerCase(resolveName(values, idx.name, row))} :
          emitted(row) <=>
            ~ \/ includes(name, <<"t", "o", "t", "a", "l">>)
              \/ includes(name, <<"r", "e", "s", "u", "l", "t", "s">>)
              \/ \A f \in {"spend", "impressions", "clicks"} : numericField(values, idx[f]) = Zero

\* a row named "Total" with non-zero numbers and an all-zero row with an
\* ordinary name were both left out
C3_Witness ==
  /\ pc = "returned"
  /\ idx.name > -1
  /\ \E row \in 1..(i - 1) :
       /\ at(rowValues(row), idx.name) = <<"T", "o", "t", "a", "l">>
       /\ numericField(rowValues(row), idx.spend) # Zero
       /\ ~emitted(row)
  /\ \E row \in 1..(i - 1) :
       /\ at(rowValues(row), idx.name) = <<"I", "d", "l", "e">>
       /\ numericField(rowValues(row), idx.results) # Zero
       /\ ~emitted(row)

\* C4: bestCampaignName is the name of the first record, in input order, that
\* attains the least spend/results among the records with results > 0, and
\* bestCPA is that least value; with no such record they are "N/A" and 0.
C4_BestPerformer ==
  pc = "done" =>
    \A eligible \in {{k \in 1..Len(data) : data[k].results.num > 0}} :
      IF eligible = {}
      THEN metrics.bestCPA = Zero /\ metrics.bestCampaignName = NA
      ELSE \E k \in eligible :
             /\ \A j \in eligible : Leq(Div(data[k].spend, data[k].results), Div(data[j].spend, data[j].results))
             /\ \A j \in eligible : j < k => Div(data[j].spend, data[j].results) # Div(data[k].spend, data[k].results)
             /\ metrics.bestCampaignName = data[k].campaignName
             /\ metrics.bestCPA = Div(data[k].spend, data[k].results)

\* {spend 100, results 10} followed by {spend 50, results 5}: the first one is the best
C4_Witness ==
  /\ pc = "done"
  /\ Len(data) = 2
  /\ data[1].spend = Num(100) /\ data[1].results = Num(10)
  /\ data[2].spend = Num(50) /\ data[2].results = Num(5)
  /\ data[1].campaignName # data[2].campaignName
  /\ metrics.bestCampaignName = data[1].campaignName

\* C5: the totals are the plain sums; avgCTR = totalClicks / totalImpressions * 100,
\* and 0 when totalImpressions is 0; avgCPC = totalSpend / totalClicks, and 0 when
\* totalClicks is 0; every value is finite.
C5_TotalsAndRates ==
  pc = "done" =>
    /\ metrics.totalSpend = reduceSum(data, "spend", 1)
    /\ metrics.totalImpressions = reduceSum(data, "impressions", 1)
    /\ metrics.totalClicks = reduceSum(data, "clicks", 1)
    /\ metrics.avgCTR = IF metrics.totalImpressions = Zero THEN Zero
                        ELSE Mul(Div(metrics.totalClicks, metrics.totalImpressions), Num(100))
    /\ metrics.avgCPC = IF metrics.totalClicks = Zero THEN Zero
                        ELSE Div(metrics.totalSpend, metrics.totalClicks)
    /\ IsFinite(metrics.avgCTR) /\ IsFinite(metrics.avgCPC)

\* C6: the end-to-end text yields bestCampaignName = "Ad A": the header "Nome" is
\* taken as the campaign-name column and the first record is named "Ad A".
C6_EndToEndBestName ==
  (csvText = EndToEndText /\ pc = "done") =>
    /\ idx.name = 0
    /\ data[1].campaignName = <<"A", "d", " ", "A">>
    /\ metrics.bestCampaignName = <<"A", "d", " ", "A">>

\* C7: the end-to-end text yields exactly two records, totalSpend = 300 and bestCPA = 20.
C7_EndToEndTotals ==
  /\ (csvText = EndToEndText /\ pc \in {"returned", "done"}) => Len(data) = 2
  /\ (csvText = EndToEndText /\ pc = "done") =>
       metrics.totalSpend = Num(300) /\ metrics.bestCPA = Num(20)

\* the summary of the end-to-end text has been computed from its two records
C7_Witness == csvText = EndToEndText /\ pc = "done" /\ src = <<1, 2>>

\* C8 as stated: the end-to-end text yields avgCTR = 6.5
C8_EndToEndCTR_AsStated ==
  (csvText = EndToEndText /\ pc = "done") => metrics.avgCTR = Norm(65, 10)

\* C8, amended: the end-to-end text yields avgCTR = 130 / 3000 * 100 = 13/3 (4.33 percent)
C8_EndToEndCTR ==
  (csvText = EndToEndText /\ pc = "done") => metrics.avgCTR = Norm(13, 3)

\* the end-to-end summary with 130 clicks over 3000 impressions
C8_Witness ==
  /\ csvText = EndToEndText
  /\ pc = "done"
  /\ metrics.totalClicks = Num(130)
  /\ metrics.totalImpressions = Num(3000)

\* C9 as stated: the record of data row i is named "Campaign i" when the name
\* column is absent and also when it is present but the cell is empty or missing.
C9_NamePlaceholder_AsStated ==
  \A k \in 1..Len(data) :
    (idx.name = -1 \/ ~Truthy(at(rowValues(src[k]), idx.name))) =>
      data[k].campaignName = <<"C", "a", "m", "p", "a", "i", "g", "n", " ">> \o toString(src[k])

\* C9, amended: the record of data row i is named "Campaign i" when the name column
\* is absent, and "Row i" when the column is present but the cell is empty or missing.
C9_NamePlaceholder ==
  \A k \in 1..Len(data) :
    /\ idx.name = -1 => data[k].campaignName = <<"C", "a", "m", "p", "a", "i", "g", "n", " ">> \o toString(src[k])
    /\ (idx.name > -1 /\ ~Truthy(at(rowValues(src[k]), idx.name))) =>
         data[k].campaignName = <<"R", "o", "w", " ">> \o toString(src[k])

\* the second data row has an empty name cell under a header with a name column
C9_Witness ==
  /\ pc = "returned"
  /\ idx.name > -1
  /\ \E k \in 1..Len(data) : src[k] = 2 /\ ~Truthy(at(rowValues(2), idx.name))

\* C10: every returned record has spend, impressions, clicks and results >= 0,
\* and impressions, clicks and results are integer-valued.
C10_NonNegativeIntegerFields ==
  pc = "returned" =>
    \A k \in 1..Len(data) :
      /\ \A f \in NumericFields : data[k][f].num >= 0
      /\ \A f \in {"impressions", "clicks", "results"} : data[k][f].den = 1

\* the characters of s that are a digit, ',', '.' or '-'
numericChars(s) == SelectSeq(s, LAMBDA c : c \in Digits \cup {",", ".", "-"})

\* s has a ',' with no '.' behind it
commaIsLast(s) == \E p \in 1..Len(s) : s[p] = "," /\ \A q \in p..Len(s) : s[q] # "."

\* s with its first ',' turned into '.'
commaToPoint(s) == [k \in 1..Len(s) |-> IF s[k] = "," /\ (\A j \in 1..(k - 1) : s[j] # ",") THEN "." ELSE s[k]]

\* the string the format rule leaves
formatRule(s) ==
  LET c == numericChars(s)
  IN IF commaIsLast(c) THEN commaToPoint(SelectSeq(c, LAMBDA x : x # "."))
     ELSE SelectSeq(c, LAMBDA x : x # ",")

\* t is [-] digits, or [-] digits . digits
isDecimal(t) ==
  LET body == IF t # <<>> /\ t[1] = "-" THEN Tail(t) ELSE t
  IN /\ body # <<>>
     /\ body[1] \in Digits
     /\ body[Len(body)] \in Digits
     /\ \A p \in 1..Len(body) : body[p] \in Digits \cup {"."}
     /\ Cardinality({p \in 1..Len(body) : body[p] = "."}) <= 1

RECURSIVE digitSum(_, _)
\* sum of digit * 10^(number of digits behind it) over the digits of t from position p on
digitSum(t, p) ==
  IF p > Len(t) THEN 0
  ELSE IF t[p] \in Digits
       THEN DigitVal[t[p]] * pow10(Cardinality({q \in (p + 1)..Len(t) : t[q] \in Digits})) + digitSum(t, p + 1)
       ELSE digitSum(t, p + 1)

\* the number a decimal string t denotes
decimalValue(t) ==
  LET point == IF \E p \in 1..Len(t) : t[p] = "." THEN CHOOSE p \in 1..Len(t) : t[p] = "." ELSE Len(t)
      n == digitSum(t, 1)
  IN Norm(IF t[1] = "-" THEN -n ELSE n, pow10(Len(t) - point))

\* C11: number parser format rule.  Of the digits, ',', '.' and '-' of the cell:
\* when the last ',' lies behind the last '.' (or there is a ',' and no '.')
\* every '.' is dropped and the comma (the first one, if there are several)
\* is the decimal point, otherwise every ',' is dropped and '.' is the decimal
\* point; the result is the number the string left denotes (its longest
\* numeric prefix, 0 when it has none).  "1.234,56" and "1,234.56" give
\* 1234.56, "" gives 0, "R$ 1.000,00" gives 1000.
C11_NumberFormatRule ==
  (pc = "done" /\ arg # Undefined) =>
    /\ ret = orZero(parseFloat(formatRule(arg)))
    /\ (isDecimal(formatRule(arg)) /\ Len(formatRule(arg)) <= MaxValueLen + 5)
         => ret = decimalValue(formatRule(arg))
    /\ (\A p \in 1..Len(arg) : arg[p] \notin Digits) => ret = Zero
    /\ arg \in {<<"1", ".", "2", "3", "4", ",", "5", "6">>, <<"1", ",", "2", "3", "4", ".", "5", "6">>} => ret = Norm(123456, 100)
    /\ arg = <<>> => ret = Num(0)
    /\ arg = <<"R", "$", " ", "1", ".", "0", "0", "0", ",", "0", "0">> => ret = Num(1000)
    /\ arg = <<"1", "0", "0", ",", "0", "0">> => ret = Num(100)

C11_Witness == pc = "done" /\ arg = <<"1", ".", "2", "3", "4", ",", "5", "6">> /\ ret = Norm(123456, 100)

RECURSIVE scan(_, _, _)
\* the positions of the line the tokenizer loop looks at from p on, each paired
\* with the value of the inside-quotes flag it finds there
scan(line, p, inQuotes) ==
  IF p > Len(line) THEN {}
  ELSE {<<p, inQuotes>>} \cup
       (IF line[p] = "\"" /\ p < Len(line) /\ line[p + 1] = "\"" THEN scan(line, p + 2, inQuotes)
        ELSE IF line[p] = "\"" THEN scan(line, p + 1, ~inQuotes)
        ELSE scan(line, p + 1, inQuotes))

\* positions of the delimiters met while the flag has value flag
delimsMet(line, delim, flag) == {p \in 1..Len(line) : line[p] = delim /\ <<p, flag>> \in scan(line, 1, FALSE)}

\* number of occurrences of c in the fields
occurrences(fields, c) ==
  Cardinality({kq \in UNION {{<<k, q>> : q \in 1..Len(fields[k])} : k \in 1..Len(fields)} : fields[kq[1]][kq[2]] = c})

\* C12: tokenizer quoting.  A delimiter met while the inside-quotes flag is
\* true is ordinary text of the current field and does not split: the emitted
\* fields hold exactly the delimiters met inside quotes (for a delimiter that
\* trim does not take off).  a,"b,c",d gives [a, b,c, d] and a,"b""c",d gives
\* [a, b"c, d].
C12_QuotedDelimiter ==
  pc = "done" =>
    /\ delimiter \notin Whitespace => occurrences(ret, delimiter) = Cardinality(delimsMet(arg, delimiter, TRUE))
    /\ (arg = <<"a", ",", "\"", "b", ",", "c", "\"", ",", "d">> /\ delimiter = ",") => ret = <<<<"a">>, <<"b", ",", "c">>, <<"d">>>>
    /\ (arg = <<"a", ",", "\"", "b", "\"", "\"", "c", "\"", ",", "d">> /\ delimiter = ",") => ret = <<<<"a">>, <<"b", "\"", "c">>, <<"d">>>>
    /\ (arg = <<"a", ";", "\"", "b", ";", "c", "\"", ";", "d">> /\ delimiter = ";") => ret = <<<<"a">>, <<"b", ";", "c">>, <<"d">>>>

C12_Witness == pc = "done" /\ arg = <<"a", ",", "\"", "b", ",", "c", "\"", ",", "d">> /\ delimiter = "," /\ ret = <<<<"a">>, <<"b", ",", "c">>, <<"d">>>>

\* the line holds no double quote
quoteFree(line) == \A p \in 1..Len(line) : line[p] # "\""

\* the one list of delimiter-free fields whose join is the line: the stretches
\* between consecutive delimiters
plainFields(line, delim) ==
  LET cuts == {0, Len(line) + 1} \cup {p \in 1..Len(line) : line[p] = delim}
      nth(k) == CHOOSE p \in cuts : Cardinality({q \in cuts : q < p}) = k
  IN [k \in 1..(Cardinality(cuts) - 1) |-> SubSeq(line, nth(k - 1) + 1, nth(k) - 1)]

\* f without its leading and trailing white space
bare(f) ==
  LET ink == {p \in 1..Len(f) : f[p] \notin Whitespace}
  IN IF ink = {} THEN <<>>
     ELSE SubSeq(f, CHOOSE p \in ink : \A q \in ink : p <= q, CHOOSE p \in ink : \A q \in ink : q <= p)

\* C13 as stated: tokenizer round-trip.  For every list of fields holding
\* neither the delimiter nor a double quote, fields with leading or trailing
\* white space and empty fields included, tokenizing the join of the list
\* gives the list back unchanged.
C13_RoundTrip_AsStated ==
  (pc = "done" /\ quoteFree(arg)) =>
    /\ join(plainFields(arg, delimiter), delimiter) = arg
    /\ ret = plainFields(arg, delimiter)

\* C13: tokenizer round-trip up to trimming.  For every non-empty list of
\* fields holding neither the delimiter nor a double quote, tokenizing the
\* join of the list gives each field without its leading and trailing white
\* space, so the list itself when no field starts or ends with white space;
\* empty fields are kept.
C13_RoundTrip ==
  (pc = "done" /\ quoteFree(arg)) =>
    /\ join(plainFields(arg, delimiter), delimiter) = arg
    /\ Len(ret) = Len(plainFields(arg, delimiter))
    /\ \A k \in 1..Len(ret) : ret[k] = bare(plainFields(arg, delimiter)[k])
    /\ (\A k \in 1..Len(ret) : bare(plainFields(arg, delimiter)[k]) = plainFields(arg, delimiter)[k])
         => ret = plainFields(arg, delimiter)

C13_Witness ==
  /\ pc = "done"
  /\ delimiter = ","
  /\ arg = join(<<<<" ", "a", " ">>, <<>>, <<"b", " ">>>>, ",")
  /\ ret = <<<<"a">>, <<>>, <<"b">>>>

\* number of positions of the line holding c
tally(line, c) == Cardinality({p \in 1..Len(line) : line[p] = c})

\* C14: delimiter detection is total and follows the precedence rule.  The
\* result is tab when the line has more tabs than commas and more tabs than
\* semicolons, otherwise semicolon when it has more semicolons than commas,
\* otherwise comma; it is always one of the three.  3 semicolons and 1 comma
\* give ';', a line with none of the three gives ','.
C14_DelimiterPrecedence ==
  pc = "done" =>
    /\ delimiter \in {"\t", ";", ","}
    /\ delimiter = "\t" <=> (tally(arg, "\t") > tally(arg, ",") /\ tally(arg, "\t") > tally(arg, ";"))
    /\ delimiter = ";" <=> (delimiter # "\t" /\ tally(arg, ";") > tally(arg, ","))
    /\ delimiter = "," <=> (delimiter # "\t" /\ tally(arg, ";") <= tally(arg, ","))
    /\ (tally(arg, ";") = 3 /\ tally(arg, ",") = 1 /\ tally(arg, "\t") = 0) => delimiter = ";"
    /\ (tally(arg, ";") = 0 /\ tally(arg, ",") = 0 /\ tally(arg, "\t") = 0) => delimiter = ","

C14_Witness == pc = "done" /\ arg = <<"a", ";", "b", ";", "c", ";", "d", ",", "e">> /\ delimiter = ";"

\* the header cell lower-cased, without diacritics, trimmed
normalized(cell) == bare(stripDiacritics(toLowerCase(cell)))

\* the normalized header h contains one of the keywords as a substring
matches(h, keywords) ==
  \E q \in 1..Len(keywords) :
    \E p \in 1..(Len(h) - Len(keywords[q]) + 1) :
      \A r \in 1..Len(keywords[q]) : h[p + r - 1] = keywords[q][r]

\* index k is the leftmost matching header, or -1 when no header matches
leftmost(cells, keywords, k) ==
  /\ k \in -1..(Len(cells) - 1)
  /\ k = -1 <=> (\A p \in 1..Len(cells) : ~matches(cells[p], keywords))
  /\ k > -1 => /\ matches(cells[k + 1], keywords)
               /\ \A p \in 1..k : ~matches(cells[p], keywords)

\* C15: header mapping.  Each semantic field, on its own, resolves to the
\* index of the leftmost header whose normalized text (lower-cased, diacritics
\* removed, trimmed) contains one of the field's keywords, or to -1 when no
\* header does; two fields may resolve to the same index.  "Valor Usado (BRL)"
\* resolves as spend and "Campanha" as campaign name.
C15_HeaderMapping ==
  \A cells \in {[k \in 1..Len(plainFields(arg, ",")) |-> normalized(plainFields(arg, ",")[k])]} :
    /\ pc = "mapped" =>
         /\ leftmost(cells, KwCampaignName, idx.name)
         /\ leftmost(cells, KwSpend, idx.spend)
         /\ leftmost(cells, KwImpressions, idx.impressions)
         /\ leftmost(cells, KwClicks, idx.clicks)
         /\ leftmost(cells, KwResults, idx.results)
         /\ plainFields(arg, ",")[1] = <<"V", "a", "l", "o", "r", " ", "U", "s", "a", "d", "o", " ", "(", "B", "R", "L", ")">> => idx.spend = 0
         /\ plainFields(arg, ",")[1] = <<"C", "a", "m", "p", "a", "n", "h", "a">> => idx.name = 0
    /\ pc = "leadsMapped" =>
         /\ leftmost(cells, KwLeadId, idx.id)
         /\ leftmost(cells, KwLeadDate, idx.date)
         /\ leftmost(cells, KwLeadName, idx.name)
         /\ leftmost(cells, KwLeadEmail, idx.email)
         /\ leftmost(cells, KwLeadPhone, idx.phone)
         /\ leftmost(cells, KwLeadCampaign, idx.campaign)

\* a spend column ahead, then two columns that both match the campaign name,
\* the first of them matching the results too
C15_Witness ==
  /\ pc = "mapped"
  /\ arg = join(<<<<"V", "a", "l", "o", "r", " ", "U", "s", "a", "d", "o", " ", "(", "B", "R", "L", ")">>, <<"C", "a", "m", "p", "a", "i", "g", "n", " ", "R", "e", "s", "u", "l", "t", "s">>, <<"C", "a", "m", "p", "a", "n", "h", "a">>>>, ",")
  /\ idx.spend = 0
  /\ idx.name = 1
  /\ idx.results = 1
  /\ idx.clicks = -1

\* the cell of lead k in column col: absent when the header has no such column
\* or the row is too short
leadCell(k, col) == IF col > -1 THEN at(rowValues(leadSrc[k]), col) ELSE Undefined

\* the cell is there and not empty
filled(cell) == cell # Undefined /\ cell # <<>>

\* the cell without one leading and one trailing double quote
unquoted(cell) ==
  LET from == IF cell # <<>> /\ cell[1] = "\"" THEN 2 ELSE 1
      rest == SubSeq(cell, from, Len(cell))
  IN IF rest # <<>> /\ rest[Len(rest)] = "\"" THEN SubSeq(rest, 1, Len(rest) - 1) ELSE rest

\* the text a lead field takes from its cell
cellText(cell) == IF filled(cell) THEN bare(unquoted(cell)) ELSE <<>>

\* the cells of a data row under the id, date, name, email, phone and campaign
\* columns, Undefined where the column or the cell is absent
cellsOf(values) ==
  <<IF idx.id > -1 THEN at(values, idx.id) ELSE Undefined,
    IF idx.date > -1 THEN at(values, idx.date) ELSE Undefined,
    IF idx.name > -1 THEN at(values, idx.name) ELSE Undefined,
    IF idx.email > -1 THEN at(values, idx.email) ELSE Undefined,
    IF idx.phone > -1 THEN at(values, idx.phone) ELSE Undefined,
    IF idx.campaign > -1 THEN at(values, idx.campaign) ELSE Undefined>>

LeadIdOf(row) == <<"l", "e", "a", "d", "-">> \o toString(row)

\* C16 as stated: lead defaults.  Each lead field of the data row at position i
\* is the mapped cell, trimmed, when the column is present and the cell is not
\* empty, otherwise its default: id "lead-i", createdTime the current ISO-8601
\* timestamp, fullName "Lead Sem Nome", campaignName "Desconhecida", email "",
\* phoneNumber ""; status is "new" for every record.
C16_LeadDefaults_AsStated ==
  pc = "leadsReturned" =>
    \A k \in 1..Len(leads) :
      \A cells \in {cellsOf(rowValues(leadSrc[k]))} :
      \A id \in {cells[1]}, date \in {cells[2]}, name \in {cells[3]},
         email \in {cells[4]}, phone \in {cells[5]}, campaign \in {cells[6]} :
        /\ leads[k].id = IF filled(id) THEN bare(id) ELSE LeadIdOf(leadSrc[k])
        /\ IF filled(date) THEN leads[k].createdTime = bare(date) ELSE leads[k].createdTime \in IsoNow
        /\ leads[k].fullName = IF filled(name) THEN bare(name) ELSE <<"L", "e", "a", "d", " ", "S", "e", "m", " ", "N", "o", "m", "e">>
        /\ leads[k].campaignName = IF filled(campaign) THEN bare(campaign) ELSE <<"D", "e", "s", "c", "o", "n", "h", "e", "c", "i", "d", "a">>
        /\ leads[k].email = IF filled(email) THEN bare(email) ELSE <<>>
        /\ leads[k].phoneNumber = IF filled(phone) THEN bare(phone) ELSE <<>>
        /\ leads[k].status = "new"

\* C16: lead defaults.  The text of a cell is the cell without one leading and
\* one trailing double quote, trimmed, and empty when the column or the cell is
\* absent.  id, createdTime, fullName and campaignName are the text of their
\* cell when it is not empty, otherwise "lead-i", the current ISO-8601
\* timestamp, "Lead Sem Nome" and "Desconhecida"; email is the text of its
\* cell; phoneNumber is the digits of the text of its cell; status is "new".
C16_LeadDefaults ==
  pc = "leadsReturned" =>
    \A k \in 1..Len(leads) :
      \A cells \in {cellsOf(rowValues(leadSrc[k]))} :
      \A id \in {cellText(cells[1])}, date \in {cellText(cells[2])},
         name \in {cellText(cells[3])}, email \in {cellText(cells[4])},
         phone \in {cellText(cells[5])}, campaign \in {cellText(cells[6])} :
        /\ leads[k].id = IF id # <<>> THEN id ELSE LeadIdOf(leadSrc[k])
        /\ IF date # <<>> THEN leads[k].createdTime = date ELSE leads[k].createdTime \in IsoNow
        /\ leads[k].fullName = IF name # <<>> THEN name ELSE <<"L", "e", "a", "d", " ", "S", "e", "m", " ", "N", "o", "m", "e">>
        /\ leads[k].campaignName = IF campaign # <<>> THEN campaign ELSE <<"D", "e", "s", "c", "o", "n", "h", "e", "c", "i", "d", "a">>
        /\ leads[k].email = email
        /\ leads[k].phoneNumber = SelectSeq(phone, LAMBDA c : c \in Digits)
        /\ leads[k].status = "new"

\* a lead whose phone cell holds more than digits, and a lead with defaults
C16_Witness ==
  /\ pc = "leadsReturned"
  /\ \E k \in 1..Len(leads) :
       /\ leadCell(k, idx.phone) = <<"+", "5", "5", " ", "(", "1", "1", ")", " ", "9">>
       /\ leads[k].phoneNumber = <<"5", "5", "1", "1", "9">>
  /\ \E k \in 1..Len(leads) :
       /\ leads[k].id = LeadIdOf(k)
       /\ leads[k].fullName = <<"L", "e", "a", "d", " ", "S", "e", "m", " ", "N", "o", "m", "e">>
       /\ leads[k].campaignName = <<"D", "e", "s", "c", "o", "n", "h", "e", "c", "i", "d", "a">>
       /\ leads[k].email = <<>>
       /\ leads[k].phoneNumber = <<>>

\* C17: no-usable-rows signalling.  Whenever the text of an uploaded file
\* yields fewer than one parsed campaign record (an empty file included), the
\* caller ends with an error message on display and the dashboard not shown;
\* whenever it yields at least one record, the dashboard is shown with exactly
\* those records and no error message.
C17_NoUsableRowsSignalled ==
  [][\A r \in reading :
       reader_onload(r) =>
         IF parseCSV(r.file.text) = ParseThrew \/ Len(parseCSV(r.file.text)) < 1
         THEN displayError' # NoError /\ ~dashboardShown'
         ELSE /\ appData' = [value |-> parseCSV(r.file.text)]
              /\ displayError' = NoError]_vars

\* C18: tokenizer field count.  For every line and delimiter the number of
\* fields splitLine emits is one plus the number of delimiter characters met
\* while the inside-quotes flag is false (every delimiter of a line without
\* quotes); there is always at least one field, and an empty line gives one
\* empty field.
C18_FieldCount ==
  pc = "done" =>
    /\ Len(ret) = 1 + Cardinality(delimsMet(arg, delimiter, FALSE))
    /\ Len(ret) >= 1
    /\ quoteFree(arg) => Len(ret) = 1 + tally(arg, delimiter)
    /\ arg = <<>> => ret = <<<<>>>>

\* a line with two delimiters outside quotes and one inside
C18_Witness ==
  /\ pc = "done"
  /\ arg = <<"a", ",", "\"", "b", ",", "c", "\"", ",", "d">>
  /\ delimiter = ","
  /\ Cardinality(delimsMet(arg, delimiter, TRUE)) = 1
  /\ Len(ret) = 3

\* the fields as the tokenizer loop leaves them, before trim and quote removal
looped(line, delim) == splitLoop(line, delim, 1, <<>>, FALSE, <<>>)

\* t starts and ends with a double quote
quotedBothEnds(t) == Len(t) >= 2 /\ t[1] = "\"" /\ t[Len(t)] = "\""

\* C19: tokenizer quote stripping.  After trimming, a field loses one leading
\* and one trailing '"' only when it has both; a field with a literal '"' at
\* one end only keeps it: the quoted field "say ""hi""", whose content is
\* say "hi", is emitted as say "hi".
C19_QuoteStripping ==
  pc = "done" =>
    /\ \A k \in 1..Len(ret) :
         \A t \in {bare(looped(arg, delimiter)[k])} :
           ret[k] = IF quotedBothEnds(t) THEN SubSeq(t, 2, Len(t) - 1) ELSE t
    /\ arg = <<"\"", "s", "a", "y", " ", "\"", "\"", "h", "i", "\"", "\"", "\"">> => ret = <<<<"s", "a", "y", " ", "\"", "h", "i", "\"">>>>

RECURSIVE gatedLoop(_, _, _, _, _, _)
\* the tokenizer loop with the escaped-quote rule applied inside quotes only
gatedLoop(line, delim, p, current, inQuotes, result) ==
  IF p > Len(line) THEN Append(result, current)
  ELSE IF inQuotes /\ line[p] = "\"" /\ p < Len(line) /\ line[p + 1] = "\""
       THEN gatedLoop(line, delim, p + 2, Append(current, "\""), inQuotes, result)
  ELSE IF line[p] = "\"" THEN gatedLoop(line, delim, p + 1, current, ~inQuotes, result)
  ELSE IF line[p] = delim /\ ~inQuotes THEN gatedLoop(line, delim, p + 1, <<>>, inQuotes, Append(result, current))
  ELSE gatedLoop(line, delim, p + 1, Append(current, line[p]), inQuotes, result)

\* C20: the escaped-quote rule applies inside quotes only.  Two consecutive '"'
\* emit one literal '"' and advance two characters only while the inside-quotes
\* flag is true; outside quotes each '"' toggles the flag and emits nothing, so
\* x""y tokenizes to the field xy.
C20_EscapeOnlyInsideQuotes ==
  pc = "done" =>
    /\ \A gated \in {gatedLoop(arg, delimiter, 1, <<>>, FALSE, <<>>)} :
         ret = [k \in 1..Len(gated) |-> stripQuotes(trim(gated[k]))]
    /\ arg = <<"x", "\"", "\"", "y">> => ret = <<<<"x", "y">>>>

\* the inside-quotes flag is true when the tokenizer loop leaves the line
endsOpen(line) ==
  LET met == scan(line, 1, FALSE)
      last == CHOOSE pf \in met : \A qf \in met : qf[1] <= pf[1]
  IN /\ met # {}
     /\ IF line[last[1]] = "\"" /\ last[1] = Len(line) THEN ~last[2] ELSE last[2]

\* the record parseCSV builds from the tokens of data line `row`
recordOf(values, row) ==
  [campaignName |-> resolveName(values, idx.name, row),
   spend |-> numericField(values, idx.spend),
   impressions |-> numericField(values, idx.impressions),
   clicks |-> numericField(values, idx.clicks),
   results |-> numericField(values, idx.results)]

\* data line `row` was handled as parseCSV handles a row with these tokens:
\* left out when the filter takes it, pushed as its record otherwise
handledAs(values, row) ==
  \A rec \in {recordOf(values, row)} :
    IF isFiltered(rec.campaignName, rec.spend, rec.impressions, rec.clicks)
    THEN ~emitted(row)
    ELSE \E k \in 1..Len(src) : src[k] = row /\ data[k] = rec

\* data line `row` has been decoded and comes after a data line that ends
\* inside quotes
afterOpenLine(row) ==
  /\ pc \in {"rows", "returned", "done"}
  /\ row \in 2..(Len(lines) - 1)
  /\ row < i
  /\ endsOpen(lines[row])

\* C21 as stated: unterminated quote across lines.  When a data line ends with
\* the inside-quotes flag true, the tokenization of the next line starts inside
\* quotes: its content, delimiters included, goes into the open field.
C21_QuoteLeaksAcrossLines_AsStated ==
  \A row \in 2..MaxRows :
    afterOpenLine(row) =>
      \A open \in {splitLoop(lines[row + 1], delimiter, 1, <<>>, TRUE, <<>>)} :
        handledAs([k \in 1..Len(open) |-> stripQuotes(trim(open[k]))], row)

\* C21: no quote state crosses a line.  Every data line is tokenized from the
\* flag false, whatever the line before it left: a line without quotes that
\* follows a line ending inside quotes is split at each of its delimiters and
\* decoded from those fields.
C21_QuoteStateIsPerLine ==
  \A row \in 2..MaxRows :
    (afterOpenLine(row) /\ quoteFree(lines[row + 1])) =>
      \A plain \in {plainFields(lines[row + 1], delimiter)} :
        handledAs([k \in 1..Len(plain) |-> bare(plain[k])], row)

\* the line "Open,5,6,7,8 (quote never closed) followed by a row that is kept
C21_Witness ==
  /\ pc = "returned"
  /\ Len(lines) = 3
  /\ endsOpen(lines[2])
  /\ lines[3] = RowAdA
  /\ Len(data) = 1
  /\ src[1] = 2
  /\ data[1].campaignName = <<"A", "d", " ", "A">>
  /\ data[1].spend = Num(100)

\* t starts with a number parseFloat can read: [-] then a digit, or '.' and a digit
startsWithNumber(t) ==
  LET body == IF t # <<>> /\ t[1] = "-" THEN Tail(t) ELSE t
  IN \/ (Len(body) >= 1 /\ body[1] \in Digits)
     \/ (Len(body) >= 2 /\ body[1] = "." /\ body[2] \in Digits)

\* number of digits of the integer part of t, leading zeros not counted
integerDigits(t) ==
  LET body == IF t # <<>> /\ t[1] = "-" THEN Tail(t) ELSE t
      stop == {p \in 1..Len(body) : body[p] \notin Digits} \cup {Len(body) + 1}
      end == CHOOSE p \in stop : \A q \in stop : p <= q
  IN Cardinality({p \in 1..(end - 1) : \E q \in 1..p : body[q] # "0"})

fractionDigits(x) ==
  CHOOSE k \in 0..(MaxValueLen + 5) : pow10(k) % x.den = 0 /\ \A j \in 0..(k - 1) : pow10(j) % x.den # 0

\* the canonical decimal form of a number: optional '-', digits, optional '.'
\* and fraction digits; an infinity has no digits and is written by its name
toDecimal(x) ==
  IF ~IsFinite(x) THEN (IF x.num < 0 THEN <<"-", "I", "n", "f", "i", "n", "i", "t", "y">> ELSE <<"I", "n", "f", "i", "n", "i", "t", "y">>)
  ELSE LET k == fractionDigits(x)
           shown == toString(Abs(x.num) * (pow10(k) \div x.den))
           all == [j \in 1..(k + 1 - Len(shown)) |-> "0"] \o shown
           whole == SubSeq(all, 1, Len(all) - k)
           fraction == SubSeq(all, Len(all) - k + 1, Len(all))
       IN (IF x.num < 0 THEN <<"-">> ELSE <<>>) \o whole \o (IF k = 0 THEN <<>> ELSE <<".">> \o fraction)

\* C23 as stated: number parser idempotence on canonical output.  For every
\* input string s, writing parseValue(s) in canonical decimal form and
\* parsing that string again returns the same number.
C23_Idempotent_AsStated ==
  pc = "done" => parseValue(toDecimal(ret)) = ret

\* C23: number parser idempotence on canonical output.  For every input
\* string s whose parsed value is finite, writing parseValue(s) in canonical
\* decimal form (optional '-', digits, optional '.' and fraction digits) and
\* parsing that string again returns the same number.
C23_Idempotent ==
  (pc = "done" /\ IsFinite(ret)) =>
    /\ isDecimal(toDecimal(ret))
    /\ parseValue(toDecimal(ret)) = ret

\* "-1,1" is read as minus eleven tenths, written "-1.1" and read the same again
C23_Witness ==
  /\ pc = "done"
  /\ arg = <<"-", "1", ",", "1">>
  /\ ret = Norm(-11, 10)
  /\ toDecimal(ret) = <<"-", "1", ".", "1">>
  /\ parseValue(toDecimal(ret)) = ret

\* C24: the campaign record sequence is immutable once parseCSV has returned
\* it.  No later operation of the session (calculateMetrics, the preparation of
\* the insight and chat context, the rendering of the dashboard) changes the
\* records or their order, so the summary shown always equals
\* calculateMetrics of the sequence as it currently is.
C24_RecordsImmutable ==
  /\ [][dashboardShown => appData' = appData]_vars
  /\ [](rendered => metrics = calculateMetrics(appData.value))

\* C26: script-loading liveness.  Every time loadingScript is set to true (the
\* automatic generation after the insights, or a manual refresh) it is
\* eventually set back to false, whether the script-generation call resolves
\* or rejects.
C26_ScriptLoadingEnds == loadingScript ~> ~loadingScript

\* C25: chat message integrity under overlapping sends.  For any interleaving
\* of handleSendMessage invocations, a message that is already in the list
\* changes only when it is the model placeholder of a send in flight and a
\* chunk of that very send has just been added to its text: the text of a user
\* message is never modified and no other request's reply is overwritten.
C25_ChatIntegrity ==
  [][\A k \in 1..Len(messages) :
       messages'[k] # messages[k] =>
         /\ messages[k].role = "model"
         /\ \E s \in sends, t \in sends' :
              /\ s.id = t.id
              /\ s.placeholder = k
              /\ t.chunks = s.chunks + 1
              /\ messages'[k] = [role |-> "model", text |-> t.fullText]]_vars

\* C27: lead status transitions.  A WhatsApp click on one lead changes the
\* status of exactly that lead from new to contacted (or leaves it contacted)
\* and leaves every other lead of the list unchanged, also in lists in which
\* several rows carry the same id; nothing but loading a new lead file or
\* clearing the list moves a lead back to new.  A step from a non-empty list to
\* a non-empty list is a click: it changes at most one lead, and only from new
\* to contacted.
C27_LeadStatus ==
  [][(leads # <<>> /\ leads' # <<>>) =>
       /\ Len(leads') = Len(leads)
       /\ Cardinality({j \in 1..Len(leads) : leads'[j] # leads[j]}) <= 1
       /\ \A j \in 1..Len(leads) :
            \/ leads'[j] = leads[j]
            \/ leads[j].status = "new" /\ leads'[j] = [leads[j] EXCEPT !.status = "contacted"]]_vars

\* C28: upload state invariant under overlapping file reads.  In every
\* reachable state of the App, if the campaign data is non-null then it holds
\* at least one record and uploadError is null, for any interleaving of file
\* selections, file-read completions and resets.
C28_UploadStateInvariant ==
  dashboardShown => (Len(appData.value) >= 1 /\ uploadError = NoError)

\* the column indices parseCSV resolves from the first line of the text
indicesOf(text) ==
  LET firstLine == nonEmptyLines(text)[1]
  IN campaignIndices(headersOf(firstLine, detectDelimiter(firstLine)))

\* the text has a header line and at least one data line
hasDataRows(text) == Len(nonEmptyLines(text)) >= 2

\* C29: when none of the Spend, Impressions and Clicks columns is resolved from
\* the header (all three indices are -1), parseCSV returns the empty sequence
\* for every set of data rows, whatever names and result values the rows carry.
C29_NoNumericColumns ==
  (pc = "done" /\ hasDataRows(arg)) =>
    \A ix \in {indicesOf(arg)} :
      (ix.spend = -1 /\ ix.impressions = -1 /\ ix.clicks = -1) => ret = <<>>

\* a named row with 100 results under the header Campanha,Resultados is dropped
C29_Witness ==
  /\ pc = "done"
  /\ arg = joinLines(<<HeaderNameResults, RowAdA>>)
  /\ indicesOf(arg) = [name |-> 0, spend |-> -1, impressions |-> -1, clicks |-> -1, results |-> 1]
  /\ parseValue(splitLine(RowAdA, ",")[2]) = Num(100)
  /\ ret = <<>>

\* C30: lead phone and id well-formedness.  Every lead record returned by
\* parseLeadsCSV has a phoneNumber made of the digits 0-9 only (possibly
\* empty), and when the Id column is absent from the header all records of one
\* call have pairwise distinct ids of the form "lead-i".
C30_LeadPhoneAndId ==
  pc = "leadsReturned" =>
    /\ \A k \in 1..Len(leads) :
         \A p \in 1..Len(leads[k].phoneNumber) : leads[k].phoneNumber[p] \in Digits
    /\ (Len(lines) >= 2 /\ idx.id = -1) =>
         /\ \A k \in 1..Len(leads) :
              \E n \in 1..(MaxRows + 1) : leads[k].id = <<"l", "e", "a", "d", "-">> \o toString(n)
         /\ \A j, k \in 1..Len(leads) : j # k => leads[j].id # leads[k].id

\* two leads under Nome;Telefone;E-mail, named lead-1 and lead-2, the phone
\* cell (21) 98 kept as 2198
C30_Witness ==
  /\ pc = "leadsReturned"
  /\ Len(leads) = 2
  /\ idx.id = -1
  /\ leads[1].id = <<"l", "e", "a", "d", "-", "1">>
  /\ leads[2].id = <<"l", "e", "a", "d", "-", "2">>
  /\ leadCell(2, idx.phone) = <<"(", "2", "1", ")", " ", "9", "8">>
  /\ leads[2].phoneNumber = <<"2", "1", "9", "8">>

====
